---- MODULE Spec2Model ----
(***************************************************************************)
(* Credit decision engine (src/src/decision_engine.py) with the financial  *)
(* calculator it calls (src/src/calculator.py) and the configuration       *)
(* (src/src/config.py).                                                    *)
(*                                                                         *)
(* Number representation.  The program computes in double precision; the   *)
(* model computes in exact integer arithmetic on scaled values:            *)
(*   - amounts of money are held in centimes (1 euro = Cent centimes);     *)
(*   - rates are held in per mille, compound factors in units of 1/Micro; *)
(*   - a ratio is a record [inf, num, den] compared by cross               *)
(*     multiplication, inf standing for float('inf');                      *)
(*   - probabilities are held in percent, scores in points, and            *)
(*     score_final in tenths of a point;                                   *)
(*   - anciennete (years, a float in the program) is held in tenths of a   *)
(*     year.                                                               *)
(* A message of an alert or of a strength is represented by its fixed      *)
(* text, without the formatted figures; texts are written without accents  *)
(* (REFUSE, ACCEPTE and ACCEPTE SOUS CONDITIONS for the three decisions). *)
(***************************************************************************)
EXTENDS Integers, Sequences, FiniteSets, TLC

\* ------------------------------------------------------------------------
\* Units
\* ------------------------------------------------------------------------
Cent == 10 * 10
Mille == 10 * 100
Micro == 12 * 1000000

\* ------------------------------------------------------------------------
\* Bounds of the explored inputs
\* ------------------------------------------------------------------------
MaxEnfants == 2

\* ------------------------------------------------------------------------
\* CONFIG (src/src/config.py)
\* ------------------------------------------------------------------------
\* MAX_DEBT_RATIO and APPORT_MIN_RECOMMANDE in percent, TAUX_IMMO and
\* TAUX_CONSO in per mille, the amounts in euros.
MAX_DEBT_RATIO == 35
MIN_RESTE_A_VIVRE == 700
MIN_RESTE_A_VIVRE_ENFANT == 300
MAX_AGE_FIN_PRET == 75
MIN_AGE == 18
TAUX_IMMO == 35
TAUX_CONSO == 65
APPORT_MIN_RECOMMANDE == 10
SEUIL_IMMO == 75000

None == "None"

\* The columns for the classifier (config.py lines 27-60).
CAT_COLS ==
    <<"NAME_CONTRACT_TYPE", "CODE_GENDER", "FLAG_OWN_CAR", "FLAG_OWN_REALTY",
      "NAME_TYPE_SUITE", "NAME_INCOME_TYPE", "NAME_EDUCATION_TYPE",
      "NAME_FAMILY_STATUS", "NAME_HOUSING_TYPE", "OCCUPATION_TYPE",
      "WEEKDAY_APPR_PROCESS_START", "ORGANIZATION_TYPE", "FONDKAPREMONT_MODE",
      "HOUSETYPE_MODE", "WALLSMATERIAL_MODE", "EMERGENCYSTATE_MODE">>

NUM_COLS_UPDATED ==
    <<"CNT_CHILDREN", "AMT_INCOME_TOTAL", "AMT_CREDIT", "AMT_ANNUITY",
      "AMT_GOODS_PRICE", "REGION_POPULATION_RELATIVE", "OWN_CAR_AGE",
      "FLAG_MOBIL", "FLAG_EMP_PHONE", "FLAG_WORK_PHONE", "FLAG_CONT_MOBILE",
      "FLAG_PHONE", "FLAG_EMAIL", "CNT_FAM_MEMBERS", "REGION_RATING_CLIENT",
      "AGE_YEARS", "EMPLOYED_YEARS", "REGISTRATION_YEARS", "ID_PUBLISH_YEARS">>

ENGINEERED_COLS ==
    <<"CREDIT_INCOME_RATIO", "ANNUITY_INCOME_RATIO", "GOODS_CREDIT_RATIO",
      "CREDIT_TERM_MONTHS", "INCOME_MONTHLY", "DEBT_RATIO", "RESTE_A_VIVRE",
      "DUREE_PRET_YEARS", "AGE_FIN_PRET">>

FEATURES_FINAL == CAT_COLS \o NUM_COLS_UPDATED \o ENGINEERED_COLS

\* ------------------------------------------------------------------------
\* Arithmetic on scaled values
\* ------------------------------------------------------------------------
Max(a, b) == IF a >= b THEN a ELSE b
Min(a, b) == IF a <= b THEN a ELSE b

\* <<floor(a*b/c), (a*b) % c>> for a, b >= 0 and c > 0: the product and
\* quotient of two doubles, on scaled integers.  b is taken K-ary digit by
\* digit so that no intermediate value exceeds the larger of 2*K*c and the
\* result; MulDiv takes 64-ary digits when c is at most Micro.
\* An intermediate result is bound as the element of a singleton set, which
\* makes it a value computed once wherever the operator is evaluated.
RECURSIVE MulDivQR(_, _, _, _)
MulDivQR(a, b, c, K) ==
    IF b = 0 THEN <<0, 0>>
    ELSE CHOOSE r \in
             { LET d == b % K
                   t == K * h[2] + d * (a % c)
               IN  <<K * h[1] + d * (a \div c) + (t \div c), t % c>> :
               h \in {MulDivQR(a, b \div K, c, K)} } : TRUE

\* floor(a*b/c); 0 outside the domain a, b >= 0, c > 0.
MulDiv(a, b, c) ==
    CHOOSE r \in
        { IF x >= 0 /\ y >= 0 /\ z > 0
          THEN MulDivQR(x, y, z, IF z <= Micro THEN 64 ELSE 2)[1]
          ELSE 0 :
          x \in {a}, y \in {b}, z \in {c} } : TRUE

\* base ** n on factors scaled by Micro.
RECURSIVE Puissance(_, _)
Puissance(base, n) ==
    IF n = 0 THEN Micro
    ELSE IF n % 2 = 0
         THEN CHOOSE r \in { MulDiv(h, h, Micro) :
                              h \in {Puissance(base, n \div 2)} } : TRUE
         ELSE MulDiv(Puissance(base, n - 1), base, Micro)

\* ------------------------------------------------------------------------
\* CalculateurCredit (src/src/calculator.py)
\* ------------------------------------------------------------------------
\* A rate in per mille, in units of 1/Micro.
TauxFin(taux_annuel) == taux_annuel * (Micro \div Mille)

\* Lines 25-32 for an annual rate taux in units of 1/Micro, capital and the
\* result in centimes.  taux_mensuel is rounded to a unit of 1/Micro as the
\* double sum 1 + taux_mensuel is rounded to a unit of 2^-52: a positive
\* monthly rate under one unit is absorbed and the factor is exactly 1.
MensualiteFin(capital, taux, duree_annees) ==
    IF taux = 0 THEN capital \div (duree_annees * 12)
    ELSE LET taux_mensuel == taux \div 12
             nb_mois == duree_annees * 12
             facteur == Puissance(Micro + taux_mensuel, nb_mois)
         IN  MulDiv(capital, MulDiv(taux_mensuel, facteur, Micro),
                    facteur - Micro)

\* MensualiteFin raises ZeroDivisionError: line 26 divides by
\* duree_annees * 12 and lines 31-32 by (1 + taux_mensuel)**nb_mois - 1,
\* which is 0 for a term of 0 and for an absorbed monthly rate.
MensualiteFinLeve(taux, duree_annees) ==
    IF taux = 0 THEN duree_annees * 12 = 0
    ELSE Puissance(Micro + taux \div 12, duree_annees * 12) - Micro = 0

\* capital in centimes, taux_annuel in per mille, duree_annees in years;
\* result in centimes.  taux_annuel / 12 is exact in units of 1/Micro.
mensualite(capital, taux_annuel, duree_annees) ==
    MensualiteFin(capital, TauxFin(taux_annuel), duree_annees)

\* mensualite raises ZeroDivisionError when the term is 0: both branches
\* divide by a quantity that is 0 for duree_annees * 12 = 0 (lines 26, 31-32).
mensualite_leve(taux_annuel, duree_annees) ==
    MensualiteFinLeve(TauxFin(taux_annuel), duree_annees)

\* Lines 34-44: <<cout_total, interets>>, in centimes.
cout_total(capital, taux_annuel, duree_annees) ==
    LET mens == mensualite(capital, taux_annuel, duree_annees)
        total == mens * duree_annees * 12
    IN  <<total, total - capital>>

\* MensualiteMax that leaves the existing charges out.
MensualiteMaxSansCharges(revenu_mensuel, charges) ==
    IF revenu_mensuel >= 0
    THEN MulDiv(revenu_mensuel, MAX_DEBT_RATIO, 100)
    ELSE 0 - MulDiv(0 - revenu_mensuel, MAX_DEBT_RATIO, 100)

\* Line 67: (revenu_mensuel * MAX_DEBT_RATIO) - charges, in centimes.
MensualiteMax(revenu_mensuel, charges) ==
    (IF revenu_mensuel >= 0
     THEN MulDiv(revenu_mensuel, MAX_DEBT_RATIO, 100)
     ELSE 0 - MulDiv(0 - revenu_mensuel, MAX_DEBT_RATIO, 100)) - charges

\* Lines 67-80 for an annual rate taux in units of 1/Micro, revenu_mensuel,
\* charges and the result in centimes.  With an absorbed monthly rate the
\* numerator is 0 and so is the result.
CapaciteFin(revenu_mensuel, taux, duree_annees, charges) ==
    LET mensualite_max == MensualiteMax(revenu_mensuel, charges)
        taux_mensuel == taux \div 12
        nb_mois == duree_annees * 12
        facteur == Puissance(Micro + taux_mensuel, nb_mois)
    IN  IF mensualite_max <= 0 THEN 0
        ELSE IF taux = 0 THEN mensualite_max * nb_mois
        ELSE MulDiv(mensualite_max, facteur - Micro,
                    MulDiv(taux_mensuel, facteur, Micro))

\* taux_annuel in per mille.
capacite_emprunt(revenu_mensuel, taux_annuel, duree_annees, charges) ==
    CapaciteFin(revenu_mensuel, TauxFin(taux_annuel), duree_annees, charges)

Inf == [inf |-> TRUE, num |-> 1, den |-> 0]

\* taux_endettement with revenu_mensuel < 0 in place of <=.
taux_endettement_strict(mens, revenu_mensuel) ==
    IF revenu_mensuel < 0 THEN Inf
    ELSE [inf |-> FALSE, num |-> mens, den |-> revenu_mensuel]

\* Lines 46-51: float('inf') for an income <= 0, the quotient otherwise.
taux_endettement(mens, revenu_mensuel) ==
    IF revenu_mensuel <= 0 THEN Inf
    ELSE [inf |-> FALSE, num |-> mens, den |-> revenu_mensuel]

\* type_credit with a strict comparison at the threshold.
type_credit_strict(montant) ==
    IF montant > SEUIL_IMMO * Cent THEN "immobilier" ELSE "consommation"

type_credit(montant) ==
    IF montant >= SEUIL_IMMO * Cent THEN "immobilier" ELSE "consommation"

\* taux_interet with the two rates exchanged.
taux_interet_echange(montant) ==
    IF montant >= SEUIL_IMMO * Cent THEN TAUX_CONSO ELSE TAUX_IMMO

taux_interet(montant) ==
    IF montant >= SEUIL_IMMO * Cent THEN TAUX_IMMO ELSE TAUX_CONSO

\* ratio > pct/100 and ratio <= pct/100, ratio.den > 0 when not inf.
RatioGt(r, pct) == r.inf \/ r.num * 100 > pct * r.den
RatioLe(r, pct) == ~RatioGt(r, pct)

RatioGe(r, pct) == r.inf \/ r.num * 100 >= pct * r.den
RatioLt(r, pct) == ~RatioGe(r, pct)

\* ------------------------------------------------------------------------
\* Inputs
\* ------------------------------------------------------------------------
\* dossier.get(key, default)
Get(d, key, default) == IF key \in DOMAIN d THEN d[key] ELSE default

Revenus == {0, 3600, 12000, 60000}
Montants == {0, 10000, 200000}
Ages == {17, 18, 55, 56}
Anciennetes == {4, 5, 19, 20, 49, 50}
Charges == {0, 250, 330, 350, 500, 601}
Apports == {0, 50000}

\* Every combination of the values above, for a term of 20 years.
Grille ==
    [revenu_annuel : Revenus, montant_credit : Montants, duree_annees : {20},
     age : Ages, anciennete_emploi : Anciennetes, nb_enfants : 0..MaxEnfants,
     charges_existantes : Charges, apport : Apports]

\* Scenarios A and B of the specification, a minor asking for a term that
\* ends after MAX_AGE_FIN_PRET, a dossier on which every penalty applies,
\* a dossier that leaves the optional fields out, and real-estate dossiers
\* at the threshold SEUIL_IMMO and around the down-payment ratios of rule 5
\* (exactly 0.10, between 0.10 and 0.20, and a denominator of 0), a dossier
\* with a negative income, and a dossier with a term of 0 years.
Scenarios ==
    { [revenu_annuel |-> 50000, montant_credit |-> 200000,
       duree_annees |-> 20, age |-> 35, anciennete_emploi |-> 50,
       nb_enfants |-> 2, charges_existantes |-> 500, apport |-> 20000],
      [revenu_annuel |-> 12000, montant_credit |-> 300000,
       duree_annees |-> 20, age |-> 40, anciennete_emploi |-> 0,
       nb_enfants |-> 0, charges_existantes |-> 0, apport |-> 0],
      [revenu_annuel |-> 60000, montant_credit |-> 10000,
       duree_annees |-> 59, age |-> 17, anciennete_emploi |-> 50,
       nb_enfants |-> 0, charges_existantes |-> 0, apport |-> 0],
      [revenu_annuel |-> 3600, montant_credit |-> 200000,
       duree_annees |-> 59, age |-> 17, anciennete_emploi |-> 0,
       nb_enfants |-> 1, charges_existantes |-> 250, apport |-> 0],
      [revenu_annuel |-> 60000, montant_credit |-> 10000],
      [revenu_annuel |-> 60000, montant_credit |-> 90000,
       duree_annees |-> 20, age |-> 35, anciennete_emploi |-> 10,
       nb_enfants |-> 0, charges_existantes |-> 0, apport |-> 10000],
      [revenu_annuel |-> 60000, montant_credit |-> 200000,
       duree_annees |-> 20, age |-> 35, anciennete_emploi |-> 10,
       nb_enfants |-> 0, charges_existantes |-> 0, apport |-> 25000],
      [revenu_annuel |-> 60000, montant_credit |-> 75000,
       duree_annees |-> 20, age |-> 35, anciennete_emploi |-> 10,
       nb_enfants |-> 0, charges_existantes |-> 0, apport |-> -75000],
      [revenu_annuel |-> -12000, montant_credit |-> 10000,
       duree_annees |-> 20, age |-> 35, anciennete_emploi |-> 50,
       nb_enfants |-> 0, charges_existantes |-> 0, apport |-> 0],
      [revenu_annuel |-> 60000, montant_credit |-> 10000,
       duree_annees |-> 0, age |-> 35, anciennete_emploi |-> 50,
       nb_enfants |-> 0, charges_existantes |-> 0, apport |-> 0] }

Dossiers == Grille \cup Scenarios

\* Applications at the ends of the ranges that DossierCredit validates
\* (api/schemas.py): income and principal just above 0, term 1 and 25,
\* age 18 and 75.
Limites ==
    { [revenu_annuel |-> r, montant_credit |-> m, duree_annees |-> d,
       age |-> a, anciennete_emploi |-> 0, nb_enfants |-> 0,
       charges_existantes |-> 0, apport |-> 0] :
      r \in {1, 60000}, m \in {1, 200000}, d \in {1, 25}, a \in {18, 75} }

\* ------------------------------------------------------------------------
\* MoteurDecision.__init__ (src/src/decision_engine.py lines 15-25)
\* ------------------------------------------------------------------------
\* The features_list argument: not given (None, the default) or a list.
Absente == [absente |-> TRUE, liste |-> <<>>]
Donnee(liste) == [absente |-> FALSE, liste |-> liste]

\* Line 24: features_list or FEATURES_FINAL.  The operator or takes its
\* right operand for every falsy left operand: None and the empty list.
FeaturesDe(fl) ==
    IF fl.absente \/ fl.liste = <<>> THEN FEATURES_FINAL ELSE fl.liste

\* Feature lists given at construction: none, the empty list, a list in
\* another order than FEATURES_FINAL that leaves assigned columns out and
\* names a column that _score_ml does not assign, and a one-column list.
ListesDonnees ==
    { Absente,
      Donnee(<<>>),
      Donnee(<<"DEBT_RATIO", "DAYS_BIRTH", "AMT_INCOME_TOTAL", "AGE_YEARS">>),
      Donnee(<<"CODE_GENDER">>) }

\* ------------------------------------------------------------------------
\* State
\* ------------------------------------------------------------------------
VARIABLES
    api,            \* the HTTP service: moteur and the last response
    appels,         \* the analyser calls in flight on one engine
    features_list,  \* the features_list argument of MoteurDecision(...)
    X_pred,         \* the table _score_ml passes to predict_proba
    calc,           \* a call of a CalculateurCredit function on its own
    model,          \* self.model: None or the injected classifier
    dossier,        \* the application given to analyser
    pc,             \* position of the analyser call
    details,        \* the financial values computed by the calculator
    score_metier,
    alertes,        \* sequence of <<severity, message>>
    points_forts,   \* sequence of messages
    predict_proba,  \* outcome of the call self.model.predict_proba(X_pred)
    proba_defaut,
    score_ml,
    score_final,
    refus_auto,
    raison_refus,
    decision

vars == <<api, appels, features_list, X_pred, calc, model, dossier, pc, details,
          score_metier, alertes, points_forts, predict_proba, proba_defaut, score_ml, score_final, refus_auto,
          raison_refus, decision>>

\* self.features: set by line 24 of __init__ and never assigned again.
features == FeaturesDe(features_list)

Init ==
    /\ model \in {None, "classifier"}
    /\ api = None
    /\ appels = None
    /\ features_list = Absente
    /\ X_pred = None
    /\ calc = None
    /\ dossier \in Dossiers
    /\ pc = "calculs"
    /\ details = None
    /\ score_metier = None
    /\ alertes = None
    /\ points_forts = None
    /\ predict_proba = None
    /\ proba_defaut = None
    /\ score_ml = None
    /\ score_final = None
    /\ refus_auto = None
    /\ raison_refus = None
    /\ decision = None

\* ------------------------------------------------------------------------
\* MoteurDecision.analyser (src/src/decision_engine.py), one action per
\* block of the method, in program order
\* ------------------------------------------------------------------------
\* Lines 45-65: the fields of the dossier d and the financial values
\* computed from them.
DetailsDe(d) ==
    LET revenu_annuel == Get(d, "revenu_annuel", 0) * Cent
        revenu_mensuel == revenu_annuel \div 12
        montant == Get(d, "montant_credit", 0) * Cent
        duree == Get(d, "duree_annees", 20)
        age == Get(d, "age", 30)
        charges == Get(d, "charges_existantes", 0) * Cent
        taux == taux_interet(montant)
        mens == mensualite(montant, taux, duree)
        mensualite_totale == mens + charges
        cout == cout_total(montant, taux, duree)
    IN  [type_credit |-> type_credit(montant),
         taux |-> taux,
         mensualite |-> mens,
         taux_endettement |->
             taux_endettement(mensualite_totale, revenu_mensuel),
         reste_a_vivre |-> revenu_mensuel - mensualite_totale,
         cout_total |-> cout[1],
         interets |-> cout[2],
         capacite_max |-> capacite_emprunt(revenu_mensuel, taux, duree,
                                           charges),
         age_fin_pret |-> age + duree]

\* Lines 45-70: extraction of the fields, financial values, initial score
\* and empty finding lists.  The ZeroDivisionError of mensualite (line 59)
\* is not caught: the call ends there, at "zero_division", with no payload.
Calculs ==
    /\ pc = "calculs"
    /\ ~mensualite_leve(taux_interet(Get(dossier, "montant_credit", 0) * Cent),
                        Get(dossier, "duree_annees", 20))
    /\ details' = DetailsDe(dossier)
    /\ score_metier' = 100
    /\ alertes' = <<>>
    /\ points_forts' = <<>>
    /\ pc' = "regle1"
    /\ UNCHANGED <<api, appels, features_list, X_pred, calc, model, dossier, predict_proba, proba_defaut, score_ml,
                   score_final, refus_auto, raison_refus, decision>>

CalculsLeve ==
    /\ pc = "calculs"
    /\ mensualite_leve(taux_interet(Get(dossier, "montant_credit", 0) * Cent),
                       Get(dossier, "duree_annees", 20))
    /\ pc' = "zero_division"
    /\ UNCHANGED <<api, appels, features_list, X_pred, calc, model, dossier, details, score_metier, alertes,
                   points_forts, predict_proba, proba_defaut, score_ml,
                   score_final, refus_auto, raison_refus, decision>>

\* What one rule does: the change of score_metier, the alerts appended to
\* alertes and the messages appended to points_forts.
Effet(delta, als, pfs) ==
    [delta |-> delta, alertes |-> als, points_forts |-> pfs]

Rien == Effet(0, <<>>, <<>>)

\* Appliquer with the findings inserted at the head of the lists.
AppliquerEnTete(e, suite) ==
    /\ score_metier' = score_metier + e.delta
    /\ alertes' = e.alertes \o alertes
    /\ points_forts' = e.points_forts \o points_forts
    /\ pc' = suite
    /\ UNCHANGED <<api, appels, features_list, X_pred, calc, model, dossier, details, predict_proba, proba_defaut,
                   score_ml, score_final, refus_auto, raison_refus, decision>>

\* score_metier += delta, alertes.append(...) and points_forts.append(...)
\* for the findings of one rule, then on to the next block.
Appliquer(e, suite) ==
    /\ score_metier' = score_metier + e.delta
    /\ alertes' = alertes \o e.alertes
    /\ points_forts' = points_forts \o e.points_forts
    /\ pc' = suite
    /\ UNCHANGED <<api, appels, features_list, X_pred, calc, model, dossier, details, predict_proba, proba_defaut,
                   score_ml, score_final, refus_auto, raison_refus, decision>>

\* RegleEndettement with ratio >= MAX_DEBT_RATIO in place of the strict test.
RegleEndettementLarge(te) ==
    IF RatioGt(te, 50)
    THEN Effet(-40, <<<<"danger", "Taux d'endettement critique">>>>, <<>>)
    ELSE IF RatioGe(te, MAX_DEBT_RATIO)
    THEN Effet(-25, <<<<"warning", "Taux d'endettement eleve">>>>, <<>>)
    ELSE IF RatioLe(te, 25)
    THEN Effet(10, <<>>, <<"Excellent taux d'endettement">>)
    ELSE IF RatioLe(te, 33)
    THEN Effet(0, <<>>, <<"Bon taux d'endettement">>)
    ELSE Rien

\* Lines 72-83, te being taux_endettement.
RegleEndettement(te) ==
    IF RatioGt(te, 50)
    THEN Effet(-40, <<<<"danger", "Taux d'endettement critique">>>>, <<>>)
    ELSE IF RatioGt(te, MAX_DEBT_RATIO)
    THEN Effet(-25, <<<<"warning", "Taux d'endettement eleve">>>>, <<>>)
    ELSE IF RatioLe(te, 25)
    THEN Effet(10, <<>>, <<"Excellent taux d'endettement">>)
    ELSE IF RatioLe(te, 33)
    THEN Effet(0, <<>>, <<"Bon taux d'endettement">>)
    ELSE Rien

Regle1 ==
    /\ pc = "regle1"
    /\ Appliquer(RegleEndettement(details.taux_endettement), "regle2")

\* RegleResteAVivre with a threshold that leaves the children out.
RegleResteAVivreSansEnfants(reste_a_vivre, nb_enfants) ==
    LET seuil_rav == MIN_RESTE_A_VIVRE * Cent
    IN  IF reste_a_vivre < 400 * Cent
        THEN Effet(-35, <<<<"danger", "Reste a vivre insuffisant">>>>, <<>>)
        ELSE IF reste_a_vivre < seuil_rav
        THEN Effet(-20, <<<<"warning", "Reste a vivre limite">>>>, <<>>)
        ELSE IF reste_a_vivre > seuil_rav * 2
        THEN Effet(10, <<>>, <<"Excellent reste a vivre">>)
        ELSE Rien

\* Lines 85-95, reste_a_vivre in centimes.
RegleResteAVivre(reste_a_vivre, nb_enfants) ==
    LET seuil_rav == (MIN_RESTE_A_VIVRE
                      + nb_enfants * MIN_RESTE_A_VIVRE_ENFANT) * Cent
    IN  IF reste_a_vivre < 400 * Cent
        THEN Effet(-35, <<<<"danger", "Reste a vivre insuffisant">>>>, <<>>)
        ELSE IF reste_a_vivre < seuil_rav
        THEN Effet(-20, <<<<"warning", "Reste a vivre limite">>>>, <<>>)
        ELSE IF reste_a_vivre > seuil_rav * 2
        THEN Effet(10, <<>>, <<"Excellent reste a vivre">>)
        ELSE Rien

Regle2 ==
    /\ pc = "regle2"
    /\ Appliquer(RegleResteAVivre(details.reste_a_vivre,
                                  Get(dossier, "nb_enfants", 0)), "regle3")

\* RegleAge with the second test written as an elif of the first.
RegleAgeElif(age, age_fin_pret) ==
    IF age < MIN_AGE
    THEN Effet(-50, <<<<"danger", "Age insuffisant">>>>, <<>>)
    ELSE IF age_fin_pret > MAX_AGE_FIN_PRET
    THEN Effet(-15, <<<<"warning", "Age en fin de pret eleve">>>>, <<>>)
    ELSE Rien

\* Lines 97-103: two tests, the second not an elif of the first.
RegleAge(age, age_fin_pret) ==
    LET mineur == IF age < MIN_AGE
                  THEN Effet(-50, <<<<"danger", "Age insuffisant">>>>, <<>>)
                  ELSE Rien
        tardif == IF age_fin_pret > MAX_AGE_FIN_PRET
                  THEN Effet(-15,
                             <<<<"warning", "Age en fin de pret eleve">>>>,
                             <<>>)
                  ELSE Rien
    IN  Effet(mineur.delta + tardif.delta,
              mineur.alertes \o tardif.alertes,
              mineur.points_forts \o tardif.points_forts)

Regle3 ==
    /\ pc = "regle3"
    /\ Appliquer(RegleAge(Get(dossier, "age", 30), details.age_fin_pret),
                 "regle4")

\* RegleAnciennete with anciennete > 5 years in place of >=.
RegleAncienneteStricte(anciennete) ==
    IF anciennete < 5
    THEN Effet(-15, <<<<"warning", "Anciennete emploi faible">>>>, <<>>)
    ELSE IF anciennete > 50
    THEN Effet(10, <<>>, <<"Excellente stabilite professionnelle">>)
    ELSE IF anciennete >= 20
    THEN Effet(0, <<>>, <<"Bonne anciennete">>)
    ELSE Rien

\* Lines 105-113; anciennete in tenths of a year, so that 0.5, 5 and 2 years
\* are 5, 50 and 20.
RegleAnciennete(anciennete) ==
    IF anciennete < 5
    THEN Effet(-15, <<<<"warning", "Anciennete emploi faible">>>>, <<>>)
    ELSE IF anciennete >= 50
    THEN Effet(10, <<>>, <<"Excellente stabilite professionnelle">>)
    ELSE IF anciennete >= 20
    THEN Effet(0, <<>>, <<"Bonne anciennete">>)
    ELSE Rien

Regle4 ==
    /\ pc = "regle4"
    /\ Appliquer(RegleAnciennete(Get(dossier, "anciennete_emploi", 0)),
                 "regle5")

\* RegleApport without the test of the credit type.
RegleApportTousCredits(type, montant, apport) ==
    LET taux_apport == IF montant + apport > 0
                       THEN [inf |-> FALSE, num |-> apport,
                             den |-> montant + apport]
                       ELSE [inf |-> FALSE, num |-> 0, den |-> 1]
    IN  IF RatioGe(taux_apport, 20)
        THEN Effet(10, <<>>, <<"Apport consequent">>)
        ELSE IF RatioLt(taux_apport, APPORT_MIN_RECOMMANDE)
        THEN Effet(-10, <<<<"warning", "Apport faible">>>>, <<>>)
        ELSE Rien

\* Lines 115-123, montant and apport in centimes.
RegleApport(type, montant, apport) ==
    IF type = "immobilier"
    THEN LET taux_apport == IF montant + apport > 0
                            THEN [inf |-> FALSE, num |-> apport,
                                  den |-> montant + apport]
                            ELSE [inf |-> FALSE, num |-> 0, den |-> 1]
         IN  IF RatioGe(taux_apport, 20)
             THEN Effet(10, <<>>, <<"Apport consequent">>)
             ELSE IF RatioLt(taux_apport, APPORT_MIN_RECOMMANDE)
             THEN Effet(-10, <<<<"warning", "Apport faible">>>>, <<>>)
             ELSE Rien
    ELSE Rien

Regle5 ==
    /\ pc = "regle5"
    /\ Appliquer(RegleApport(details.type_credit,
                             Get(dossier, "montant_credit", 0) * Cent,
                             Get(dossier, "apport", 0) * Cent), "score_ml")

\* ------------------------------------------------------------------------
\* MoteurDecision._score_ml
\* ------------------------------------------------------------------------
\* A cell of the row: the missing-value marker np.nan or a value.
NaN == [nan |-> TRUE, v |-> 0]
Val(x) == [nan |-> FALSE, v |-> x]

\* dossier.get(key, np.nan)
GetOuNaN(d, key) == IF key \in DOMAIN d THEN Val(d[key]) ELSE NaN

Range(seq) == {seq[i] : i \in 1..Len(seq)}

\* The keys that lines 195-214 assign, in the order of the assignments.
Assignees ==
    <<"AMT_INCOME_TOTAL", "AMT_CREDIT", "AGE_YEARS", "EMPLOYED_YEARS",
      "CNT_CHILDREN", "CNT_FAM_MEMBERS", "AMT_ANNUITY", "CREDIT_INCOME_RATIO",
      "ANNUITY_INCOME_RATIO", "INCOME_MONTHLY", "DEBT_RATIO", "RESTE_A_VIVRE",
      "DUREE_PRET_YEARS", "AGE_FIN_PRET", "CREDIT_TERM_MONTHS">>

\* The value lines 195-214 assign to key c: amounts of the dossier in
\* euros, mens and the monthly amounts in centimes, ratios as num / den.
Valeur(c, d, mens, duree) ==
    LET revenu == Get(d, "revenu_annuel", 1)
        montant == Get(d, "montant_credit", 0)
    IN  CASE c = "AMT_INCOME_TOTAL" -> GetOuNaN(d, "revenu_annuel")
          [] c = "AMT_CREDIT" -> GetOuNaN(d, "montant_credit")
          [] c = "AGE_YEARS" -> GetOuNaN(d, "age")
          [] c = "EMPLOYED_YEARS" -> GetOuNaN(d, "anciennete_emploi")
          [] c = "CNT_CHILDREN" -> Val(Get(d, "nb_enfants", 0))
          [] c = "CNT_FAM_MEMBERS" -> Val(Get(d, "nb_enfants", 0) + 1)
          [] c = "AMT_ANNUITY" -> Val(mens * 12)
          [] c = "CREDIT_INCOME_RATIO" ->
                 IF revenu > 0 THEN Val([num |-> montant, den |-> revenu])
                 ELSE NaN
          [] c = "ANNUITY_INCOME_RATIO" ->
                 IF revenu > 0
                 THEN Val([num |-> mens * 12, den |-> revenu * Cent])
                 ELSE NaN
          [] c = "INCOME_MONTHLY" -> Val((revenu * Cent) \div 12)
          [] c = "DEBT_RATIO" ->
                 IF revenu > 0
                 THEN Val([num |-> mens * 12, den |-> revenu * Cent])
                 ELSE NaN
          [] c = "RESTE_A_VIVRE" -> Val((revenu * Cent) \div 12 - mens)
          [] c = "DUREE_PRET_YEARS" -> Val(duree)
          [] c = "AGE_FIN_PRET" -> Val(Get(d, "age", 30) + duree)
          [] c = "CREDIT_TERM_MONTHS" -> Val(duree * 12)

\* Lines 192-214: the dict row, as its keys in insertion order and its
\* values.  Every feature starts at np.nan; an assignment to a key that is
\* not a feature adds the key at the end.
Ligne(feats, d, mens, duree) ==
    [cles |-> feats \o SelectSeq(Assignees, LAMBDA c : c \notin Range(feats)),
     valeurs |-> [c \in Range(feats) \cup Range(Assignees) |->
                     IF c \in Range(Assignees) THEN Valeur(c, d, mens, duree)
                     ELSE NaN]]

\* pd.DataFrame([row]) without the columns argument: one column per key.
DataFrameToutesCles(row, columns) ==
    [columns |-> row.cles, rows |-> <<row.valeurs>>]

\* Line 217, pd.DataFrame([row], columns=self.features): one row, the
\* columns named, in that order; a key of row outside columns is dropped
\* and a column that is no key of row holds np.nan.
DataFrame(row, columns) ==
    [columns |-> columns,
     rows |-> << [c \in Range(columns) |->
                    IF c \in DOMAIN row.valeurs THEN row.valeurs[c]
                    ELSE NaN] >>]

\* Probabilities a classifier may return, in percent.
NbProbas == 4
Probas == {(100 * i) \div NbProbas : i \in 0..NbProbas}

Raised == [raised |-> TRUE, value |-> 0]
Returned(p) == [raised |-> FALSE, value |-> p]

\* Probabilities on both sides of 0.875, in percent.
ProbasLimites == {87, 88}

\* Values outside [0,1] that an injected object can return, in percent:
\* line 220 converts whatever it gets with float() and tests no range.
HorsIntervalle == {-25, 125}

\* What the expression self.model.predict_proba(X_pred)[:, 1][0] of line 220
\* can do: with no model the attribute access raises; a classifier either
\* raises or returns a number, by contract the probability of the positive
\* class.
PredictOutcomes(m) ==
    IF m = None THEN {Raised}
    ELSE {Raised} \cup
         {Returned(p) : p \in Probas \cup ProbasLimites \cup HorsIntervalle}

\* _score_ml without the try / except around the call.
_score_ml_sans_except(outcome) == outcome

\* Lines 219-225: try / except / return.  The bare except catches whatever
\* the call raises and sets 0.5 (50 percent), so the method always returns.
_score_ml(outcome) ==
    IF outcome.raised THEN Returned(50) ELSE Returned(outcome.value)

\* ScoreMLDe without the complement: the probability itself, in points.
ScoreMLDirect(proba) == proba

\* Line 127: (1 - proba_defaut) * 100, in points for a probability in
\* percent.
ScoreMLDe(proba) == ((100 - proba) * 100) \div 100

\* Lines 126-127.  An exception that _score_ml let through would leave
\* analyser at line 126: no payload is returned.
ScoreML ==
    /\ pc = "score_ml"
    /\ X_pred' = DataFrame(Ligne(features, dossier, details.mensualite,
                                 Get(dossier, "duree_annees", 20)),
                           features)
    /\ \E outcome \in PredictOutcomes(model) :
          /\ predict_proba' = outcome
          /\ IF _score_ml(outcome).raised
             THEN /\ pc' = "raised"
                  /\ UNCHANGED <<proba_defaut, score_ml>>
             ELSE /\ proba_defaut' = _score_ml(outcome).value
                  /\ score_ml' = ScoreMLDe(_score_ml(outcome).value)
                  /\ pc' = "score_final"
    /\ UNCHANGED <<api, appels, features_list, calc, model, dossier, details, score_metier, alertes,
                   points_forts, score_final, refus_auto, raison_refus,
                   decision>>

\* Borner without the upper bound.
BornerSansPlafond(score) == Max(0, score)

\* Line 130: max(0, min(100, score_metier)).
Borner(score) == Max(0, Min(100, score))

\* ScoreFinalDe with the two weights exchanged.
ScoreFinalInverse(metier, ml) == 4 * metier + 6 * ml

\* Line 131: 0.6 * score_metier + 0.4 * score_ml, in tenths of a point.
ScoreFinalDe(metier, ml) == 6 * metier + 4 * ml

\* Lines 130-131.
ScoreFinal ==
    /\ pc = "score_final"
    /\ score_metier' = Borner(score_metier)
    /\ score_final' = ScoreFinalDe(score_metier', score_ml)
    /\ pc' = "decision"
    /\ UNCHANGED <<api, appels, features_list, X_pred, calc, model, dossier, details, alertes, points_forts,
                   predict_proba, proba_defaut, score_ml, refus_auto,
                   raison_refus, decision>>

\* Refus with the age tested before the two financial conditions.
RefusAgeDAbord(te, reste_a_vivre, age) ==
    IF age < MIN_AGE
    THEN <<TRUE, "Age minimum non atteint">>
    ELSE IF RatioGt(te, 50)
    THEN <<TRUE, "Taux d'endettement excessif">>
    ELSE IF reste_a_vivre < 400 * Cent
    THEN <<TRUE, "Reste a vivre insuffisant">>
    ELSE <<FALSE, None>>

\* Refus without the age condition.
RefusSansAge(te, reste_a_vivre, age) ==
    IF RatioGt(te, 50)
    THEN <<TRUE, "Taux d'endettement excessif">>
    ELSE IF reste_a_vivre < 400 * Cent
    THEN <<TRUE, "Reste a vivre insuffisant">>
    ELSE <<FALSE, None>>

\* Lines 134-145: <<refus_auto, raison_refus>>.
Refus(te, reste_a_vivre, age) ==
    IF RatioGt(te, 50)
    THEN <<TRUE, "Taux d'endettement excessif">>
    ELSE IF reste_a_vivre < 400 * Cent
    THEN <<TRUE, "Reste a vivre insuffisant">>
    ELSE IF age < MIN_AGE
    THEN <<TRUE, "Age minimum non atteint">>
    ELSE <<FALSE, None>>

\* Verdict with the score tested before the hard refusal.
VerdictScoreDAbord(refus, final) ==
    IF final >= 700 THEN "ACCEPTE"
    ELSE IF refus THEN "REFUSE"
    ELSE IF final >= 500 THEN "ACCEPTE SOUS CONDITIONS"
    ELSE "REFUSE"

\* Verdict with final > 70 in place of >=.
VerdictStrict(refus, final) ==
    IF refus THEN "REFUSE"
    ELSE IF final > 700 THEN "ACCEPTE"
    ELSE IF final >= 500 THEN "ACCEPTE SOUS CONDITIONS"
    ELSE "REFUSE"

\* Lines 147-154, final in tenths of a point.
Verdict(refus, final) ==
    IF refus THEN "REFUSE"
    ELSE IF final >= 700 THEN "ACCEPTE"
    ELSE IF final >= 500 THEN "ACCEPTE SOUS CONDITIONS"
    ELSE "REFUSE"

\* Lines 134-154, and the return of the payload.
Decision ==
    /\ pc = "decision"
    /\ LET r == Refus(details.taux_endettement, details.reste_a_vivre,
                      Get(dossier, "age", 30))
       IN  /\ refus_auto' = r[1]
           /\ raison_refus' = r[2]
           /\ decision' = Verdict(r[1], score_final)
    /\ pc' = "done"
    /\ UNCHANGED <<api, appels, features_list, X_pred, calc, model, dossier, details, score_metier, alertes,
                   points_forts, predict_proba, proba_defaut, score_ml,
                   score_final>>

Next ==
    \/ Calculs
    \/ CalculsLeve
    \/ Regle1
    \/ Regle2
    \/ Regle3
    \/ Regle4
    \/ Regle5
    \/ ScoreML
    \/ ScoreFinal
    \/ Decision

Spec == Init /\ [][Next]_vars

\* analyser called on the scenarios and on the applications at the ends of
\* the validated ranges.  Here a local that is not assigned yet holds a
\* value of the kind it will take (an empty record or list, -1, FALSE), so
\* that any two states can be compared variable by variable.
InitLimites ==
    /\ model \in {None, "classifier"}
    /\ api = None
    /\ appels = None
    /\ features_list = Absente
    /\ X_pred = [columns |-> <<>>, rows |-> <<>>]
    /\ calc = None
    /\ dossier \in Scenarios \cup Limites
    /\ pc = "calculs"
    /\ details = [vide |-> TRUE]
    /\ score_metier = -1
    /\ alertes = <<>>
    /\ points_forts = <<>>
    /\ predict_proba = [raised |-> FALSE, value |-> -1]
    /\ proba_defaut = -1
    /\ score_ml = -1
    /\ score_final = -1
    /\ refus_auto = FALSE
    /\ raison_refus = None
    /\ decision = None

\* analyser is an ordinary call: once started it runs each of its
\* statements until it returns or raises.
SpecLimites == InitLimites /\ [][Next]_vars /\ WF_vars(Next)

\* analyser called on the scenarios by engines built with each of the
\* feature lists.
InitFeatures ==
    /\ model \in {None, "classifier"}
    /\ api = None
    /\ appels = None
    /\ features_list \in ListesDonnees
    /\ X_pred = None
    /\ calc = None
    /\ dossier \in Scenarios
    /\ pc = "calculs"
    /\ details = None
    /\ score_metier = None
    /\ alertes = None
    /\ points_forts = None
    /\ predict_proba = None
    /\ proba_defaut = None
    /\ score_ml = None
    /\ score_final = None
    /\ refus_auto = None
    /\ raison_refus = None
    /\ decision = None

SpecFeatures == InitFeatures /\ [][Next]_vars

\* ------------------------------------------------------------------------
\* analyser on applications whose principal is close to capacite_max
\* ------------------------------------------------------------------------
\* Euros of annual income on each side of the income at which the payment
\* and the charges take MAX_DEBT_RATIO of the monthly income.
Fenetre == 15

\* Principal, term, monthly charges, and the annual income (in euros,
\* rounded) for which (mensualite + charges) / (revenu / 12) is 0.35:
\* 12 * (mensualite + charges) / 0.35.
Frontieres ==
    { [montant |-> 200000, duree |-> 20, charges |-> 0, revenu |-> 39769],
      [montant |-> 10000, duree |-> 5, charges |-> 500, revenu |-> 23851],
      [montant |-> 75000, duree |-> 25, charges |-> 0, revenu |-> 12873],
      [montant |-> 10000, duree |-> 1, charges |-> 0, revenu |-> 29587],
      [montant |-> 74999, duree |-> 7, charges |-> 250, revenu |-> 46755] }

\* The applications around each of these incomes, and one whose charges
\* alone exceed the share, for which capacite_max is 0.
DossiersFrontiere ==
    { [revenu_annuel |-> f.revenu + k, montant_credit |-> f.montant,
       duree_annees |-> f.duree, age |-> 35, anciennete_emploi |-> 50,
       nb_enfants |-> 0, charges_existantes |-> f.charges, apport |-> 0] :
      f \in Frontieres, k \in (0 - Fenetre)..Fenetre }
        \cup
    { [revenu_annuel |-> 12000, montant_credit |-> 10000,
       duree_annees |-> 20, age |-> 35, anciennete_emploi |-> 50,
       nb_enfants |-> 0, charges_existantes |-> 500, apport |-> 0] }

InitFrontiere ==
    /\ model \in {None, "classifier"}
    /\ api = None
    /\ appels = None
    /\ features_list = Absente
    /\ X_pred = None
    /\ calc = None
    /\ dossier \in DossiersFrontiere \cup Scenarios
    /\ pc = "calculs"
    /\ details = None
    /\ score_metier = None
    /\ alertes = None
    /\ points_forts = None
    /\ predict_proba = None
    /\ proba_defaut = None
    /\ score_ml = None
    /\ score_final = None
    /\ refus_auto = None
    /\ raison_refus = None
    /\ decision = None

SpecFrontiere == InitFrontiere /\ [][Next]_vars

\* ------------------------------------------------------------------------
\* Concurrent calls of analyser on one engine (api/main.py keeps one
\* MoteurDecision for all requests)
\* ------------------------------------------------------------------------
NbAppels == 2

\* The applications the concurrent calls are given: the one whose decision
\* depends on the classifier, and the one with a term of 0, on which
\* mensualite raises.
DossiersAppels ==
    {d \in Scenarios :
        \/ d.revenu_annuel = 50000
        \/ Get(d, "duree_annees", 20) = 0}

\* A frame that all the calls would share.
CadreCommun(i) == 1

\* The frame that holds the arguments and locals of call i: a Python call
\* has a frame of its own, and analyser keeps everything it computes in
\* locals (no attribute of self, no global is assigned in lines 27-177).
Cadre(i) == i

\* The frame of a call that has not started: lines 27-44.
CadreInitial(d) ==
    [dossier |-> d, pc |-> "calculs", X_pred |-> None, details |-> None,
     score_metier |-> None, alertes |-> None, points_forts |-> None,
     predict_proba |-> None, proba_defaut |-> None, score_ml |-> None,
     score_final |-> None, refus_auto |-> None, raison_refus |-> None,
     decision |-> None]

\* The frame of the call that is running: the variables of the model.
CadreCourant ==
    [dossier |-> dossier, pc |-> pc, X_pred |-> X_pred, details |-> details,
     score_metier |-> score_metier, alertes |-> alertes,
     points_forts |-> points_forts, predict_proba |-> predict_proba,
     proba_defaut |-> proba_defaut, score_ml |-> score_ml,
     score_final |-> score_final, refus_auto |-> refus_auto,
     raison_refus |-> raison_refus, decision |-> decision]

\* The slot of the frame of the running call, which is in the variables.
EnCours == [pc |-> "en_cours"]

\* One engine, NbAppels calls, call i given the application ds[i] of an
\* assignment ds of donnes; call 1 runs first.  appels.dossiers keeps the
\* application each call was given.
InitAppels(donnes) ==
    /\ api = None
    /\ model = "classifier"
    /\ features_list = Absente
    /\ calc = None
    /\ \E ds \in donnes :
          /\ appels = [courant |-> 1,
                       dossiers |-> ds,
                       cadres |-> [i \in 1..NbAppels |->
                                     IF i = 1 THEN EnCours
                                     ELSE CadreInitial(ds[i])]]
          /\ dossier = ds[1]
    /\ pc = "calculs"
    /\ X_pred = None
    /\ details = None
    /\ score_metier = None
    /\ alertes = None
    /\ points_forts = None
    /\ predict_proba = None
    /\ proba_defaut = None
    /\ score_ml = None
    /\ score_final = None
    /\ refus_auto = None
    /\ raison_refus = None
    /\ decision = None

InitConcurrent == InitAppels([1..NbAppels -> DossiersAppels])

\* The scheduler (thread pool, event loop) lets another call run: the
\* frame of the running call is put aside and the frame of call j taken up.
Commuter ==
    \E j \in (1..NbAppels) \ {appels.courant} :
        LET ranges == [appels.cadres EXCEPT
                          ![Cadre(appels.courant)] = CadreCourant]
            c == ranges[Cadre(j)]
        IN  /\ appels' = [appels EXCEPT
                             !.courant = j,
                             !.cadres = [ranges EXCEPT ![Cadre(j)] = EnCours]]
            /\ dossier' = c.dossier
            /\ pc' = c.pc
            /\ X_pred' = c.X_pred
            /\ details' = c.details
            /\ score_metier' = c.score_metier
            /\ alertes' = c.alertes
            /\ points_forts' = c.points_forts
            /\ predict_proba' = c.predict_proba
            /\ proba_defaut' = c.proba_defaut
            /\ score_ml' = c.score_ml
            /\ score_final' = c.score_final
            /\ refus_auto' = c.refus_auto
            /\ raison_refus' = c.raison_refus
            /\ decision' = c.decision
            /\ UNCHANGED <<api, features_list, calc, model>>

NextConcurrent ==
    \/ Next
    \/ Commuter

SpecConcurrent == InitConcurrent /\ [][NextConcurrent]_vars

\* The applications given to calls that all get the same one: scenarios A
\* and B (B is refused on its debt ratio), the minor, and the term of 0.
DossiersRepetes ==
    {d \in Scenarios :
        \/ d.revenu_annuel \in {50000, 12000}
        \/ Get(d, "age", 30) = 17 /\ d.revenu_annuel = 60000
        \/ Get(d, "duree_annees", 20) = 0}

\* NbAppels calls of analyser on one application.
InitRepete ==
    InitAppels({ [i \in 1..NbAppels |-> d] : d \in DossiersRepetes })

SpecRepete == InitRepete /\ [][NextConcurrent]_vars

\* ------------------------------------------------------------------------
\* CalculateurCredit called on its own: mensualite, then capacite_emprunt
\* on the income that makes the payment the largest affordable one
\* ------------------------------------------------------------------------
MaxDuree == 30

\* Principals in centimes: 1, 1 000, 10 000, 75 000, 200 000 and 1 000 000
\* euros.
Capitaux == {1 * Cent, 1000 * Cent, 10000 * Cent, 75000 * Cent,
             200000 * Cent, 1000000 * Cent}

\* Annual rates in units of 1/Micro: 0, a positive rate whose monthly value
\* is under one unit, the smallest one whose monthly value is a unit, and
\* 3.5, 6.5 and 12 percent.
TauxAnnuels == {0, 5, 12, TauxFin(TAUX_IMMO), TauxFin(TAUX_CONSO),
                TauxFin(120)}

Durees == 1..MaxDuree

\* The analyser part of the state when only the calculator runs.
HorsAnalyser ==
    /\ model = None
    /\ api = None
    /\ appels = None
    /\ features_list = Absente
    /\ X_pred = None
    /\ dossier = None
    /\ details = None
    /\ score_metier = None
    /\ alertes = None
    /\ points_forts = None
    /\ predict_proba = None
    /\ proba_defaut = None
    /\ score_ml = None
    /\ score_final = None
    /\ refus_auto = None
    /\ raison_refus = None
    /\ decision = None

\* The service before any request: no engine attribute, no call frame.
HorsService ==
    /\ model = None
    /\ features_list = Absente
    /\ calc = None
    /\ X_pred = None
    /\ dossier = None
    /\ details = None
    /\ score_metier = None
    /\ alertes = None
    /\ points_forts = None
    /\ predict_proba = None
    /\ proba_defaut = None
    /\ score_ml = None
    /\ score_final = None
    /\ refus_auto = None
    /\ raison_refus = None
    /\ decision = None

InitCapacite ==
    /\ pc = "calculateur"
    /\ calc \in { [etape |-> "entree", capital |-> P, taux |-> r, duree |-> n,
                   mens |-> 0, revenu |-> 0, capacite |-> 0] :
                  P \in Capitaux, r \in TauxAnnuels, n \in Durees }
    /\ HorsAnalyser

\* mensualite(capital, taux, duree) returns.
AppelMensualite ==
    /\ pc = "calculateur"
    /\ calc.etape = "entree"
    /\ ~MensualiteFinLeve(calc.taux, calc.duree)
    /\ calc' = [calc EXCEPT
                   !.etape = "mensualite",
                   !.mens = MensualiteFin(calc.capital, calc.taux, calc.duree)]
    /\ UNCHANGED <<api, appels, features_list, X_pred, model, dossier, pc, details,
                   score_metier, alertes, points_forts, predict_proba,
                   proba_defaut, score_ml, score_final, refus_auto,
                   raison_refus, decision>>

\* mensualite(capital, taux, duree) raises ZeroDivisionError.
AppelMensualiteLeve ==
    /\ pc = "calculateur"
    /\ calc.etape = "entree"
    /\ MensualiteFinLeve(calc.taux, calc.duree)
    /\ calc' = [calc EXCEPT !.etape = "zero_division"]
    /\ UNCHANGED <<api, appels, features_list, X_pred, model, dossier, pc, details,
                   score_metier, alertes, points_forts, predict_proba,
                   proba_defaut, score_ml, score_final, refus_auto,
                   raison_refus, decision>>

\* The least monthly income, in centimes, whose MAX_DEBT_RATIO share is the
\* payment: revenu * MAX_DEBT_RATIO / 100 rounds down to mens.
RevenuPour(mens) == (mens * 100 + MAX_DEBT_RATIO - 1) \div MAX_DEBT_RATIO

ChoixRevenu ==
    /\ pc = "calculateur"
    /\ calc.etape = "mensualite"
    /\ calc' = [calc EXCEPT !.etape = "revenu",
                            !.revenu = RevenuPour(calc.mens)]
    /\ UNCHANGED <<api, appels, features_list, X_pred, model, dossier, pc, details,
                   score_metier, alertes, points_forts, predict_proba,
                   proba_defaut, score_ml, score_final, refus_auto,
                   raison_refus, decision>>

\* capacite_emprunt(revenu, taux, duree, 0) returns.
AppelCapaciteEmprunt ==
    /\ pc = "calculateur"
    /\ calc.etape = "revenu"
    /\ calc' = [calc EXCEPT
                   !.etape = "capacite",
                   !.capacite = CapaciteFin(calc.revenu, calc.taux,
                                            calc.duree, 0)]
    /\ UNCHANGED <<api, appels, features_list, X_pred, model, dossier, pc, details,
                   score_metier, alertes, points_forts, predict_proba,
                   proba_defaut, score_ml, score_final, refus_auto,
                   raison_refus, decision>>

NextCapacite ==
    \/ AppelMensualite
    \/ AppelMensualiteLeve
    \/ ChoixRevenu
    \/ AppelCapaciteEmprunt

SpecCapacite == InitCapacite /\ [][NextCapacite]_vars

\* ------------------------------------------------------------------------
\* CalculateurCredit.capacite_emprunt called on its own
\* ------------------------------------------------------------------------
\* Monthly incomes in centimes: negative, 0, 1 000 and 3 000 euros.
RevenusMensuels == {0 - 1000 * Cent, 0, 1000 * Cent, 3000 * Cent}

\* Monthly charges in centimes: 0, one centime under and exactly the
\* MAX_DEBT_RATIO share of 1 000 euros, and 2 000 euros.
ChargesMensuelles == {0, 350 * Cent - 1, 350 * Cent, 2000 * Cent}

InitPlafond ==
    /\ pc = "calculateur"
    /\ calc \in { [etape |-> "entree", revenu |-> rev, taux |-> r,
                   duree |-> n, charges |-> ch, capacite |-> 0] :
                  rev \in RevenusMensuels, r \in TauxAnnuels, n \in Durees,
                  ch \in ChargesMensuelles }
    /\ HorsAnalyser

\* capacite_emprunt(revenu, taux, duree, charges) returns.
AppelCapaciteSeule ==
    /\ pc = "calculateur"
    /\ calc.etape = "entree"
    /\ calc' = [calc EXCEPT
                   !.etape = "retour",
                   !.capacite = CapaciteFin(calc.revenu, calc.taux,
                                            calc.duree, calc.charges)]
    /\ UNCHANGED <<api, appels, features_list, X_pred, model, dossier, pc,
                   details, score_metier, alertes, points_forts,
                   predict_proba, proba_defaut, score_ml, score_final,
                   refus_auto, raison_refus, decision>>

NextPlafond == AppelCapaciteSeule

SpecPlafond == InitPlafond /\ [][NextPlafond]_vars

\* ------------------------------------------------------------------------
\* CalculateurCredit.type_credit and taux_interet called on one amount
\* ------------------------------------------------------------------------
\* Centimes on each side of SEUIL_IMMO among the amounts.
Voisinage == 20

\* Amounts in centimes: the threshold and its neighbours, a negative
\* amount, 0, one centime, and amounts far on each side of the threshold.
MontantsSeuil ==
    { SEUIL_IMMO * Cent + k : k \in (0 - Voisinage)..Voisinage }
        \cup {0 - 10000 * Cent, 0, 1, 10000 * Cent, 200000 * Cent,
              1000000 * Cent}

InitSeuil ==
    /\ pc = "calculateur"
    /\ calc \in { [montant |-> m, type |-> "None", taux |-> -1] :
                  m \in MontantsSeuil }
    /\ HorsAnalyser

\* type_credit(montant) returns.
AppelTypeCredit ==
    /\ pc = "calculateur"
    /\ calc.type = "None"
    /\ calc' = [calc EXCEPT !.type = type_credit(calc.montant)]
    /\ UNCHANGED <<api, appels, features_list, X_pred, model, dossier, pc,
                   details, score_metier, alertes, points_forts,
                   predict_proba, proba_defaut, score_ml, score_final,
                   refus_auto, raison_refus, decision>>

\* taux_interet(montant) returns.
AppelTauxInteret ==
    /\ pc = "calculateur"
    /\ calc.taux = -1
    /\ calc' = [calc EXCEPT !.taux = taux_interet(calc.montant)]
    /\ UNCHANGED <<api, appels, features_list, X_pred, model, dossier, pc,
                   details, score_metier, alertes, points_forts,
                   predict_proba, proba_defaut, score_ml, score_final,
                   refus_auto, raison_refus, decision>>

NextSeuil == AppelTypeCredit \/ AppelTauxInteret

SpecSeuil == InitSeuil /\ [][NextSeuil]_vars

\* ------------------------------------------------------------------------
\* CalculateurCredit.mensualite called on two arguments that differ in
\* the principal or in the rate
\* ------------------------------------------------------------------------
\* What a call of mensualite produces: the payment in centimes, or the
\* ZeroDivisionError of line 32.
IssueMensualite(capital, taux, duree_annees) ==
    IF MensualiteFinLeve(taux, duree_annees)
    THEN [leve |-> TRUE, valeur |-> 0]
    ELSE [leve |-> FALSE,
          valeur |-> MensualiteFin(capital, taux, duree_annees)]

NonAppelee == [leve |-> FALSE, valeur |-> -1]

\* Two principals P1 < P2 at one rate >= 0, or two rates 0 < r1 < r2 on
\* one principal of at least 1 000 euros, for one term.
Paires ==
    { [capital1 |-> c1, taux1 |-> r, capital2 |-> c2, taux2 |-> r,
       duree |-> n] :
      c1 \in Capitaux, c2 \in Capitaux, r \in TauxAnnuels, n \in Durees }
    \cup
    { [capital1 |-> c, taux1 |-> r1, capital2 |-> c, taux2 |-> r2,
       duree |-> n] :
      c \in Capitaux \ {1 * Cent}, r1 \in TauxAnnuels \ {0},
      r2 \in TauxAnnuels, n \in Durees }

InitMonotonie ==
    /\ pc = "calculateur"
    /\ calc \in { [etape |-> "entree", paire |-> p, premiere |-> NonAppelee,
                   seconde |-> NonAppelee] :
                  p \in { q \in Paires : \/ q.capital1 < q.capital2
                                         \/ q.taux1 < q.taux2 } }
    /\ HorsAnalyser

\* mensualite(P1, r1, n) returns or raises.
PremierAppel ==
    /\ pc = "calculateur"
    /\ calc.etape = "entree"
    /\ calc' = [calc EXCEPT
                   !.etape = "premier",
                   !.premiere = IssueMensualite(calc.paire.capital1,
                                                calc.paire.taux1,
                                                calc.paire.duree)]
    /\ UNCHANGED <<api, appels, features_list, X_pred, model, dossier, pc,
                   details, score_metier, alertes, points_forts,
                   predict_proba, proba_defaut, score_ml, score_final,
                   refus_auto, raison_refus, decision>>

\* mensualite(P2, r2, n) returns or raises.
SecondAppel ==
    /\ pc = "calculateur"
    /\ calc.etape = "premier"
    /\ calc' = [calc EXCEPT
                   !.etape = "retour",
                   !.seconde = IssueMensualite(calc.paire.capital2,
                                               calc.paire.taux2,
                                               calc.paire.duree)]
    /\ UNCHANGED <<api, appels, features_list, X_pred, model, dossier, pc,
                   details, score_metier, alertes, points_forts,
                   predict_proba, proba_defaut, score_ml, score_final,
                   refus_auto, raison_refus, decision>>

NextMonotonie == PremierAppel \/ SecondAppel

SpecMonotonie == InitMonotonie /\ [][NextMonotonie]_vars

\* ------------------------------------------------------------------------
\* CalculateurCredit.tableau_amortissement (calculator.py lines 92-127)
\* ------------------------------------------------------------------------
\* Lines 109-118, the months of one year: k months remain, acc holds solde,
\* interets_annee and capital_rembourse, in centimes.  interet is
\* solde * taux_mensuel rounded down to a centime.
RECURSIVE Mois(_, _, _, _)
Mois(k, mens, taux_mensuel, acc) ==
    IF k = 0 \/ acc.solde <= 0 THEN acc
    ELSE LET interet == MulDiv(acc.solde, taux_mensuel, Micro)
             principal == mens - interet
         IN  Mois(k - 1, mens, taux_mensuel,
                  [solde |-> acc.solde - principal,
                   interets_annee |-> acc.interets_annee + interet,
                   capital_rembourse |-> acc.capital_rembourse + principal])

\* Lines 105-125, one iteration of the loop on the years: the row appended.
LigneAnnee(annee, mens, taux_mensuel, solde) ==
    LET fin == Mois(12, mens, taux_mensuel,
                    [solde |-> solde, interets_annee |-> 0,
                     capital_rembourse |-> 0])
    IN  [annee |-> annee,
         capital_rembourse |-> fin.capital_rembourse,
         interets |-> fin.interets_annee,
         solde_restant |-> Max(0, fin.solde),
         solde |-> fin.solde]

InitTableau ==
    /\ pc = "calculateur"
    /\ calc \in { [etape |-> "entree", capital |-> P, taux |-> r, duree |-> n,
                   mensualite |-> 0, solde |-> 0, annee |-> 0,
                   tableau |-> <<>>] :
                  P \in Capitaux, r \in TauxAnnuels, n \in Durees }
    /\ HorsAnalyser

\* Lines 101-104: mensualite returns; solde = capital, tableau = [].
DebutTableau ==
    /\ pc = "calculateur"
    /\ calc.etape = "entree"
    /\ ~MensualiteFinLeve(calc.taux, calc.duree)
    /\ calc' = [calc EXCEPT
                   !.etape = "annees",
                   !.mensualite = MensualiteFin(calc.capital, calc.taux,
                                                calc.duree),
                   !.solde = calc.capital,
                   !.annee = 1]
    /\ UNCHANGED <<api, appels, features_list, X_pred, model, dossier, pc, details,
                   score_metier, alertes, points_forts, predict_proba,
                   proba_defaut, score_ml, score_final, refus_auto,
                   raison_refus, decision>>

\* Line 101: mensualite raises ZeroDivisionError, and so does
\* tableau_amortissement.
DebutTableauLeve ==
    /\ pc = "calculateur"
    /\ calc.etape = "entree"
    /\ MensualiteFinLeve(calc.taux, calc.duree)
    /\ calc' = [calc EXCEPT !.etape = "zero_division"]
    /\ UNCHANGED <<api, appels, features_list, X_pred, model, dossier, pc, details,
                   score_metier, alertes, points_forts, predict_proba,
                   proba_defaut, score_ml, score_final, refus_auto,
                   raison_refus, decision>>

\* Lines 105-125: the iteration for year calc.annee.
Annee ==
    /\ pc = "calculateur"
    /\ calc.etape = "annees"
    /\ calc.annee <= calc.duree
    /\ LET ligne == LigneAnnee(calc.annee, calc.mensualite,
                               calc.taux \div 12, calc.solde)
       IN  calc' = [calc EXCEPT
                      !.solde = ligne.solde,
                      !.annee = calc.annee + 1,
                      !.tableau = Append(calc.tableau,
                          [annee |-> ligne.annee,
                           capital_rembourse |-> ligne.capital_rembourse,
                           interets |-> ligne.interets,
                           solde_restant |-> ligne.solde_restant])]
    /\ UNCHANGED <<api, appels, features_list, X_pred, model, dossier, pc, details,
                   score_metier, alertes, points_forts, predict_proba,
                   proba_defaut, score_ml, score_final, refus_auto,
                   raison_refus, decision>>

\* Line 127: the loop on the years is over, the table is returned.
RetourTableau ==
    /\ pc = "calculateur"
    /\ calc.etape = "annees"
    /\ calc.annee > calc.duree
    /\ calc' = [calc EXCEPT !.etape = "retour"]
    /\ UNCHANGED <<api, appels, features_list, X_pred, model, dossier, pc, details,
                   score_metier, alertes, points_forts, predict_proba,
                   proba_defaut, score_ml, score_final, refus_auto,
                   raison_refus, decision>>

NextTableau ==
    \/ DebutTableau
    \/ DebutTableauLeve
    \/ Annee
    \/ RetourTableau

SpecTableau == InitTableau /\ [][NextTableau]_vars

\* ------------------------------------------------------------------------
\* Properties
\* ------------------------------------------------------------------------
Decisions == {"REFUSE", "ACCEPTE", "ACCEPTE SOUS CONDITIONS"}

\* The values of the application as analyser reads them, amounts in centimes.
Age == Get(dossier, "age", 30)
Duree == Get(dossier, "duree_annees", 20)
Anciennete == Get(dossier, "anciennete_emploi", 0)
NbEnfants == Get(dossier, "nb_enfants", 0)
ChargesCentimes == Get(dossier, "charges_existantes", 0) * Cent
RevenuMensuel == (Get(dossier, "revenu_annuel", 0) * Cent) \div 12

\* The three hard-refusal conditions, on the values of the payload.
DetteExcessive == RatioGt(details.taux_endettement, 50)
ResteInsuffisant == details.reste_a_vivre < 400 * Cent
Mineur == Age < 18

\* The findings a step has appended to a list, when it has only appended.
Prefixe(avant, apres) ==
    /\ Len(apres) >= Len(avant)
    /\ SubSeq(apres, 1, Len(avant)) = avant
Nouvelles(avant, apres) == SubSeq(apres, Len(avant) + 1, Len(apres))
Severites(als) == [i \in 1..Len(als) |-> als[i][1]]

\* A step that changes score_metier by delta, appends alerts of the given
\* severities, in that order, and appends nb strengths.
Effectue(delta, severites, nb) ==
    /\ score_metier' = score_metier + delta
    /\ Prefixe(alertes, alertes')
    /\ Severites(Nouvelles(alertes, alertes')) = severites
    /\ Prefixe(points_forts, points_forts')
    /\ Len(points_forts') = Len(points_forts) + nb

\* C1: whenever analyser returns with refus_auto true, the decision is
\* REFUSE, whatever score_final is.
C1_RefusAutoRefuse ==
    (pc = "done" /\ refus_auto) => decision = "REFUSE"

\* A hard refusal returned with a score_final of 70 or more.
C1_Witness ==
    /\ pc = "done"
    /\ refus_auto
    /\ score_final >= 700
    /\ decision = "REFUSE"

\* C2: refus_auto is true exactly when the debt ratio exceeds 0.50, or the
\* disposable income is below 400, or the age is below 18; raison_refus is
\* the reason of the first of these that holds, in that order, and is None
\* exactly when refus_auto is false.
C2_RaisonRefus ==
    pc = "done" =>
        /\ refus_auto = (DetteExcessive \/ ResteInsuffisant \/ Mineur)
        /\ DetteExcessive => raison_refus = "Taux d'endettement excessif"
        /\ (~DetteExcessive /\ ResteInsuffisant)
               => raison_refus = "Reste a vivre insuffisant"
        /\ (~DetteExcessive /\ ~ResteInsuffisant /\ Mineur)
               => raison_refus = "Age minimum non atteint"
        /\ (raison_refus = None) = (~refus_auto)

\* Two hard conditions hold and the reason reported is that of the first.
C2_Witness ==
    /\ pc = "done"
    /\ ~DetteExcessive
    /\ ResteInsuffisant
    /\ Mineur
    /\ raison_refus = "Reste a vivre insuffisant"

\* C3: with no hard-refusal condition, the decision is ACCEPTE for
\* score_final >= 70, ACCEPTE SOUS CONDITIONS for 50 <= score_final < 70 and
\* REFUSE below 50; the decision is always one of the three values.
C3_Seuils ==
    pc = "done" =>
        /\ decision \in Decisions
        /\ ~(DetteExcessive \/ ResteInsuffisant \/ Mineur) =>
              /\ score_final >= 700 => decision = "ACCEPTE"
              /\ (score_final >= 500 /\ score_final < 700)
                     => decision = "ACCEPTE SOUS CONDITIONS"
              /\ score_final < 500 => decision = "REFUSE"

\* An application without hard refusal accepted under conditions.
C3_Witness ==
    /\ pc = "done"
    /\ ~(DetteExcessive \/ ResteInsuffisant \/ Mineur)
    /\ score_final >= 500
    /\ score_final < 700
    /\ decision = "ACCEPTE SOUS CONDITIONS"

\* C4: the score_metier returned is within [0,100] whatever rules fired, the
\* score before clamping being between -65 and 140, and score_final is
\* computed from the clamped value.
C4_ScoreMetierBorne ==
    /\ [](pc \in {"decision", "done"} =>
             /\ score_metier >= 0
             /\ score_metier <= 100
             /\ score_final = 6 * score_metier + 4 * score_ml)
    /\ [][pc = "score_final" =>
             /\ score_metier >= -65
             /\ score_metier <= 140
             /\ score_metier > 100 => score_metier' = 100
             /\ score_metier < 0 => score_metier' = 0
             /\ (score_metier >= 0 /\ score_metier <= 100)
                    => score_metier' = score_metier]_vars

\* Every bonus fired (a score of 140 before clamping) and the payload
\* carries 100.
C4_Witness ==
    /\ pc = "done"
    /\ alertes = <<>>
    /\ points_forts = <<"Excellent taux d'endettement",
                        "Excellent reste a vivre",
                        "Excellente stabilite professionnelle",
                        "Apport consequent">>
    /\ score_metier = 100

\* C5: in every payload score_ml = (1 - proba_defaut) * 100 and
\* score_final = 0.6 * score_metier + 0.4 * score_ml.
C5_Scores ==
    pc = "done" =>
        /\ score_ml = 100 - proba_defaut
        /\ score_final = 6 * score_metier + 4 * score_ml

\* A payload for a classifier that returned probability 1.
C5_Witness ==
    /\ pc = "done"
    /\ ~predict_proba.raised
    /\ proba_defaut = 100
    /\ score_ml = 0
    /\ score_metier > 0
    /\ score_final = 6 * score_metier

\* C6: when the classifier is absent or its call raises, proba_defaut is 0.5
\* and score_ml is 50, and the payload returned is complete; the failure is
\* never propagated to the caller of analyser.
C6_ReplisNeutre ==
    /\ pc # "raised"
    /\ (pc \in {"score_final", "decision", "done"}
            /\ (model = None \/ predict_proba.raised))
           => (proba_defaut = 50 /\ score_ml = 50)
    /\ (pc = "done" /\ predict_proba.raised) =>
           /\ decision \in Decisions
           /\ refus_auto \in BOOLEAN
           /\ score_final = 6 * score_metier + 200

\* A payload returned although the injected classifier raised.
C6_Witness ==
    /\ pc = "done"
    /\ model # None
    /\ predict_proba.raised
    /\ proba_defaut = 50
    /\ score_ml = 50
    /\ decision \in Decisions

\* C7: rule 1, on the ratio (payment + charges) / monthly income: above 0.50
\* it subtracts 40 and appends one danger alert; in ]0.35, 0.50] it subtracts
\* 25 and appends one warning alert; up to 0.25 it adds 10 and appends one
\* strength; in ]0.25, 0.33] it appends one strength; in ]0.33, 0.35] it
\* changes nothing; exactly one of the five cases applies.
C7_Regle1 ==
    [][pc = "regle1" =>
          LET te == details.taux_endettement
              cas == <<RatioGt(te, 50),
                       RatioGt(te, 35) /\ RatioLe(te, 50),
                       RatioLe(te, 25),
                       RatioGt(te, 25) /\ RatioLe(te, 33),
                       RatioGt(te, 33) /\ RatioLe(te, 35)>>
          IN  /\ RevenuMensuel > 0 =>
                    /\ ~te.inf
                    /\ te.num = details.mensualite + ChargesCentimes
                    /\ te.den = RevenuMensuel
              /\ Cardinality({i \in 1..5 : cas[i]}) = 1
              /\ cas[1] => Effectue(-40, <<"danger">>, 0)
              /\ cas[2] => Effectue(-25, <<"warning">>, 0)
              /\ cas[3] => Effectue(10, <<>>, 1)
              /\ cas[4] => Effectue(0, <<>>, 1)
              /\ cas[5] => Effectue(0, <<>>, 0)]_vars

\* Rule 1 has run on a ratio in ]0.33, 0.35] and has changed nothing.
C7_Witness ==
    /\ pc = "regle2"
    /\ RatioGt(details.taux_endettement, 33)
    /\ RatioLe(details.taux_endettement, 35)
    /\ score_metier = 100
    /\ alertes = <<>>
    /\ points_forts = <<>>

\* C8: rule 2, with threshold = 700 + 300 * nb_enfants and disposable income
\* = monthly income - payment - charges: below 400 it subtracts 35 and
\* appends one danger alert; in [400, threshold[ it subtracts 20 and appends
\* one warning alert; above 2 * threshold it adds 10 and appends one
\* strength; in [threshold, 2 * threshold] it changes nothing; for
\* nb_enfants >= 0 exactly one case applies.
C8_Regle2 ==
    [][(pc = "regle2" /\ NbEnfants >= 0) =>
          LET seuil == (700 + 300 * NbEnfants) * Cent
              rav == details.reste_a_vivre
              cas == <<rav < 400 * Cent,
                       rav >= 400 * Cent /\ rav < seuil,
                       rav > 2 * seuil,
                       rav >= seuil /\ rav <= 2 * seuil>>
          IN  /\ rav = RevenuMensuel - details.mensualite - ChargesCentimes
              /\ Cardinality({i \in 1..4 : cas[i]}) = 1
              /\ cas[1] => Effectue(-35, <<"danger">>, 0)
              /\ cas[2] => Effectue(-20, <<"warning">>, 0)
              /\ cas[3] => Effectue(10, <<>>, 1)
              /\ cas[4] => Effectue(0, <<>>, 0)]_vars

\* Rule 2 has run for two children on a disposable income between 1000 and
\* 1300 and has appended its warning.
C8_Witness ==
    /\ pc = "regle3"
    /\ NbEnfants = 2
    /\ details.reste_a_vivre >= 1000 * Cent
    /\ details.reste_a_vivre < 1300 * Cent
    /\ Len(alertes) >= 1
    /\ alertes[Len(alertes)] = <<"warning", "Reste a vivre limite">>

\* C9: rule 3 makes two independent checks: age < 18 subtracts 50 and
\* appends a danger alert, age + term > 75 subtracts 15 and appends a
\* warning alert; when both hold both are applied, the danger alert first.
C9_Regle3 ==
    [][pc = "regle3" =>
          Effectue((IF Age < 18 THEN -50 ELSE 0)
                       + (IF Age + Duree > 75 THEN -15 ELSE 0),
                   (IF Age < 18 THEN <<"danger">> ELSE <<>>)
                       \o (IF Age + Duree > 75 THEN <<"warning">> ELSE <<>>),
                   0)]_vars

\* Rule 3 has run for a minor whose loan ends after 75: both alerts are
\* there, danger then warning.
C9_Witness ==
    /\ pc = "regle4"
    /\ Age < 18
    /\ Age + Duree > 75
    /\ Len(alertes) >= 2
    /\ alertes[Len(alertes) - 1] = <<"danger", "Age insuffisant">>
    /\ alertes[Len(alertes)] = <<"warning", "Age en fin de pret eleve">>

\* C10: rule 4, on the tenure in years: below 0.5 it subtracts 15 and
\* appends one warning alert; from 5 it adds 10 and appends one strength; in
\* [2, 5[ it appends one strength; in [0.5, 2[ it changes nothing.
C10_Regle4 ==
    [][pc = "regle4" =>
          /\ Anciennete < 5 => Effectue(-15, <<"warning">>, 0)
          /\ Anciennete >= 50 => Effectue(10, <<>>, 1)
          /\ (Anciennete >= 20 /\ Anciennete < 50) => Effectue(0, <<>>, 1)
          /\ (Anciennete >= 5 /\ Anciennete < 20)
                 => Effectue(0, <<>>, 0)]_vars

\* Rule 4 has run on a tenure of exactly 5 years and has appended its
\* strength.
C10_Witness ==
    /\ pc = "regle5"
    /\ Anciennete = 50
    /\ Len(points_forts) >= 1
    /\ points_forts[Len(points_forts)]
           = "Excellente stabilite professionnelle"

\* C11: rule 5 applies only to a real-estate credit (principal >= 75000):
\* with ratio = down / (principal + down), taken as 0 when principal + down
\* <= 0, a ratio >= 0.20 adds 10 and appends one strength, a ratio < 0.10
\* subtracts 10 and appends one warning alert, a ratio in [0.10, 0.20[
\* changes nothing; for a consumer credit the down payment changes neither
\* the score nor the finding lists.
C11_Regle5 ==
    [][pc = "regle5" =>
          LET montant == Get(dossier, "montant_credit", 0)
              apport == Get(dossier, "apport", 0)
              num == IF montant + apport > 0 THEN apport ELSE 0
              den == IF montant + apport > 0 THEN montant + apport ELSE 1
              immo == montant >= 75000
          IN  /\ (details.type_credit = "immobilier") = immo
              /\ (immo /\ num * 100 >= 20 * den) => Effectue(10, <<>>, 1)
              /\ (immo /\ num * 100 < 10 * den)
                     => Effectue(-10, <<"warning">>, 0)
              /\ (immo /\ num * 100 >= 10 * den /\ num * 100 < 20 * den)
                     => Effectue(0, <<>>, 0)
              /\ ~immo => Effectue(0, <<>>, 0)]_vars

\* Rule 5 has run on a consumer credit with a down payment of five times
\* the principal and has left no finding.
C11_Witness ==
    /\ pc = "score_ml"
    /\ details.type_credit = "consommation"
    /\ Get(dossier, "montant_credit", 0) = 10000
    /\ Get(dossier, "apport", 0) = 50000
    /\ \A i \in 1..Len(points_forts) : points_forts[i] # "Apport consequent"
    /\ \A i \in 1..Len(alertes) : alertes[i][2] # "Apport faible"

\* The place of a finding in the order of evaluation of the rules.
Rang(message) ==
    CASE message \in {"Taux d'endettement critique",
                      "Taux d'endettement eleve",
                      "Excellent taux d'endettement",
                      "Bon taux d'endettement"} -> 1
      [] message \in {"Reste a vivre insuffisant", "Reste a vivre limite",
                      "Excellent reste a vivre"} -> 2
      [] message = "Age insuffisant" -> 3
      [] message = "Age en fin de pret eleve" -> 4
      [] message \in {"Anciennete emploi faible",
                      "Excellente stabilite professionnelle",
                      "Bonne anciennete"} -> 5
      [] message \in {"Apport consequent", "Apport faible"} -> 6

\* C12: in alertes and in points_forts the findings are in the order of
\* evaluation of the rules: debt ratio, disposable income, minimum age, age
\* at maturity, tenure, down payment; a finding of a later rule never
\* precedes one of an earlier rule.
C12_OrdreConstats ==
    pc \notin {"calculs", "zero_division"} =>
        /\ \A i, j \in 1..Len(alertes) :
               i < j => Rang(alertes[i][2]) < Rang(alertes[j][2])
        /\ \A i, j \in 1..Len(points_forts) :
               i < j => Rang(points_forts[i]) < Rang(points_forts[j])

\* A payload with the six alerts, one per check, in the order of the rules.
C12_Witness ==
    /\ pc = "done"
    /\ Len(alertes) = 6
    /\ alertes[1][2] = "Taux d'endettement critique"
    /\ alertes[3][2] = "Age insuffisant"
    /\ alertes[4][2] = "Age en fin de pret eleve"
    /\ alertes[6][2] = "Apport faible"

\* Scenario A of the specification: income 50000, principal 200000, term
\* 20, age 35, tenure 5, children 2, charges 500, down payment 20000.
ScenarioA ==
    [revenu_annuel |-> 50000, montant_credit |-> 200000,
     duree_annees |-> 20, age |-> 35, anciennete_emploi |-> 50,
     nb_enfants |-> 2, charges_existantes |-> 500, apport |-> 20000]

\* C15 as stated: for Scenario A analyser returns credit type real-estate,
\* rate 0.035, a decision that is not REFUSE, and at least one strength.
C15_ScenarioANonRefuse ==
    (pc = "done" /\ dossier = ScenarioA) =>
        /\ details.type_credit = "immobilier"
        /\ details.taux = 35
        /\ decision # "REFUSE"
        /\ Len(points_forts) >= 1

\* C15, amended: for Scenario A analyser returns credit type real-estate,
\* rate 0.035, score_metier 75, no hard refusal and the strength of a tenure
\* of 5 years; the decision is not REFUSE exactly when the default
\* probability used is at most 0.875 (in particular when the classifier is
\* absent or raises), and REFUSE, by score, above 0.875.
C15_ScenarioA ==
    (pc = "done" /\ dossier = ScenarioA) =>
        /\ details.type_credit = "immobilier"
        /\ details.taux = 35
        /\ score_metier = 75
        /\ refus_auto = FALSE
        /\ Len(points_forts) >= 1
        /\ \E i \in 1..Len(points_forts) :
               points_forts[i] = "Excellente stabilite professionnelle"
        /\ (decision # "REFUSE") = (proba_defaut * 10 <= 875)
        /\ (model = None \/ predict_proba.raised) => decision # "REFUSE"

\* Scenario A refused by score alone, the classifier having returned 0.88.
C15_Witness ==
    /\ pc = "done"
    /\ dossier = ScenarioA
    /\ proba_defaut = 88
    /\ refus_auto = FALSE
    /\ decision = "REFUSE"

\* C16: the proba_defaut of every payload is within [0,1], whatever the
\* injected classifier does (returns a value, raises, or is absent).
C16_ProbaBornee ==
    pc = "done" => (proba_defaut >= 0 /\ proba_defaut <= 100)

\* The applications within the ranges validated by DossierCredit.
Valide ==
    /\ Get(dossier, "revenu_annuel", 0) > 0
    /\ Get(dossier, "montant_credit", 0) > 0
    /\ Duree >= 1 /\ Duree <= 25
    /\ Age >= 18 /\ Age <= 75
    /\ Anciennete >= 0
    /\ NbEnfants >= 0
    /\ ChargesCentimes >= 0
    /\ Get(dossier, "apport", 0) >= 0

\* C17: for every application within the validated ranges and every
\* behaviour of the classifier (returns a probability, raises, is None),
\* analyser raises no exception and terminates by returning a decision
\* payload.
C17_Termine ==
    /\ [](Valide => pc \notin {"raised", "zero_division"})
    /\ (pc = "calculs" /\ Valide)
           ~> (pc = "done" /\ decision \in Decisions
                  /\ refus_auto \in BOOLEAN)

\* A payload returned for a valid application of the minimum age by an
\* engine without classifier.
C17_Witness ==
    /\ pc = "done"
    /\ Valide
    /\ Age = 18
    /\ model = None
    /\ decision \in Decisions

\* C20: taux_endettement returns positive infinity whenever the monthly
\* income is <= 0 and payment / income otherwise, and never raises; in
\* analyser an infinite ratio takes the > 0.50 branch of rule 1 (danger
\* alert, 40 points off) and of the hard-refusal check.
C20_TauxInfini ==
    pc \notin {"calculs", "zero_division"} =>
        /\ RevenuMensuel <= 0 =>
               /\ details.taux_endettement.inf
               /\ pc = "regle2" => score_metier = 60
               /\ pc # "regle1" =>
                      /\ Len(alertes) >= 1
                      /\ alertes[1] = <<"danger", "Taux d'endettement critique">>
               /\ pc = "done" =>
                      /\ refus_auto = TRUE
                      /\ raison_refus = "Taux d'endettement excessif"
                      /\ decision = "REFUSE"
        /\ RevenuMensuel > 0 =>
               /\ ~details.taux_endettement.inf
               /\ details.taux_endettement.num
                      = details.mensualite + ChargesCentimes
               /\ details.taux_endettement.den = RevenuMensuel

\* A payload for an income of 0 and a classifier that returned probability
\* 0: the ratio is infinite and the application is refused for its debt.
C20_Witness ==
    /\ pc = "done"
    /\ Get(dossier, "revenu_annuel", 0) = 0
    /\ details.taux_endettement.inf
    /\ proba_defaut = 0
    /\ raison_refus = "Taux d'endettement excessif"

\* The table has exactly one row, exactly the columns of liste in the same
\* order, no column outside it, and the marker NaN in every column that
\* _score_ml does not assign.
TableConforme(liste) ==
    /\ Len(X_pred.rows) = 1
    /\ X_pred.columns = liste
    /\ DOMAIN X_pred.rows[1] = Range(liste)
    /\ \A c \in Range(liste) :
           c \notin Range(Assignees) => X_pred.rows[1][c] = NaN

\* C19 as stated: the table passed to predict_proba has one row and exactly
\* the columns of the engine's feature list, in order, that list being the
\* list given at construction, or FEATURES_FINAL when none is given; the
\* columns not assigned hold NaN and no column outside the list is passed.
C19_TableListeDonnee ==
    pc \in {"score_final", "decision", "done", "raised"} =>
        /\ features = (IF features_list.absente THEN FEATURES_FINAL
                       ELSE features_list.liste)
        /\ TableConforme(IF features_list.absente THEN FEATURES_FINAL
                         ELSE features_list.liste)

\* C19, amended: the table passed to predict_proba has one row and exactly
\* the columns of the engine's feature list, in order, that list being the
\* list given at construction when it is not empty, and FEATURES_FINAL when
\* none or an empty one is given; the columns not assigned hold NaN and no
\* column outside the list is passed.
C19_Table ==
    pc \in {"score_final", "decision", "done", "raised"} =>
        /\ features = (IF features_list.absente \/ features_list.liste = <<>>
                       THEN FEATURES_FINAL ELSE features_list.liste)
        /\ TableConforme(features)

\* A table for a given list of four columns: the column that is not
\* assigned holds NaN, the assigned ones hold values, in the order given.
C19_Witness ==
    /\ pc = "done"
    /\ ~features_list.absente
    /\ X_pred.columns = <<"DEBT_RATIO", "DAYS_BIRTH", "AMT_INCOME_TOTAL",
                          "AGE_YEARS">>
    /\ X_pred.rows[1]["DAYS_BIRTH"] = NaN
    /\ X_pred.rows[1]["AGE_YEARS"] = Val(35)
    /\ X_pred.rows[1]["AMT_INCOME_TOTAL"] = Val(50000)

\* The principal is recovered to within the effect of the payment being
\* rounded down to a centime: one centime a month of the term, and one more
\* for the rounding of the capacity itself.
Retrouve(c) ==
    /\ c.capital - c.capacite >= 0
    /\ c.capital - c.capacite <= c.duree * 12 + 1

\* C13: for every principal P > 0, annual rate r >= 0 (r = 0 included) and
\* term n > 0, mensualite(P, r, n) returns a payment and capacite_emprunt,
\* called with charges 0 on the income whose MAX_DEBT_RATIO share is that
\* payment, returns P within tolerance.
C13_AllerRetour ==
    pc = "calculateur" =>
        /\ calc.etape # "zero_division"
        /\ calc.etape = "capacite" => Retrouve(calc)

\* Sum of the capital_rembourse of the rows.
RECURSIVE SommeCapital(_)
SommeCapital(tableau) ==
    IF tableau = <<>> THEN 0
    ELSE tableau[Len(tableau)].capital_rembourse
         + SommeCapital(SubSeq(tableau, 1, Len(tableau) - 1))

\* What a centime a month amounts to at the end of the term, interest
\* included, in centimes: ((1 + taux_mensuel)**nb_mois - 1) / taux_mensuel,
\* and nb_mois for a rate of 0.
Cumul(taux, duree_annees) ==
    IF taux \div 12 = 0 THEN duree_annees * 12
    ELSE (Puissance(Micro + taux \div 12, duree_annees * 12) - Micro)
         \div (taux \div 12) + 1

\* The tolerance on an amount of the table: the payment and the interest
\* of a month are each rounded down to a centime, and the payment carries
\* the rounding of the factor, a ten-thousandth of it at most.
Tolerance(c) ==
    (2 + c.mensualite \div 10000) * Cumul(c.taux, c.duree)

SommeConforme(c) ==
    /\ SommeCapital(c.tableau) - c.capital <= Tolerance(c)
    /\ c.capital - SommeCapital(c.tableau) <= Tolerance(c)

\* C14: for every principal P > 0, rate r >= 0 and term n >= 1,
\* tableau_amortissement(P, r, n) returns rows whose capital_rembourse sum
\* to P within tolerance and whose last solde_restant is 0.
C14_Tableau ==
    pc = "calculateur" =>
        /\ calc.etape # "zero_division"
        /\ calc.etape = "retour" =>
               /\ Len(calc.tableau) = calc.duree
               /\ SommeConforme(calc)
               /\ calc.tableau[Len(calc.tableau)].solde_restant = 0

\* The frame of call i, running or put aside.
CadreDe(i) ==
    IF i = appels.courant THEN CadreCourant ELSE appels.cadres[Cadre(i)]

\* Lines 156-177: the payload returned from the frame c.
Payload(c) ==
    [decision |-> c.decision, score_final |-> c.score_final,
     score_metier |-> c.score_metier, score_ml |-> c.score_ml,
     proba_defaut |-> c.proba_defaut, refus_auto |-> c.refus_auto,
     raison_refus |-> c.raison_refus, alertes |-> c.alertes,
     points_forts |-> c.points_forts, details |-> c.details]

\* The payload analyser returns when it runs alone on the application d
\* and the classifier call does outcome: lines 45-177 from top to bottom.
Seul(d, outcome) ==
    LET det == DetailsDe(d)
        e == <<RegleEndettement(det.taux_endettement),
               RegleResteAVivre(det.reste_a_vivre, Get(d, "nb_enfants", 0)),
               RegleAge(Get(d, "age", 30), det.age_fin_pret),
               RegleAnciennete(Get(d, "anciennete_emploi", 0)),
               RegleApport(det.type_credit,
                           Get(d, "montant_credit", 0) * Cent,
                           Get(d, "apport", 0) * Cent)>>
        brut == 100 + e[1].delta + e[2].delta + e[3].delta + e[4].delta
                    + e[5].delta
        metier == Borner(brut)
        proba == _score_ml(outcome).value
        ml == ScoreMLDe(proba)
        final == ScoreFinalDe(metier, ml)
        r == Refus(det.taux_endettement, det.reste_a_vivre,
                   Get(d, "age", 30))
    IN  [decision |-> Verdict(r[1], final), score_final |-> final,
         score_metier |-> metier, score_ml |-> ml, proba_defaut |-> proba,
         refus_auto |-> r[1], raison_refus |-> r[2],
         alertes |-> e[1].alertes \o e[2].alertes \o e[3].alertes
                     \o e[4].alertes \o e[5].alertes,
         points_forts |-> e[1].points_forts \o e[2].points_forts
                          \o e[3].points_forts \o e[4].points_forts
                          \o e[5].points_forts,
         details |-> det]

\* Every call still holds the application it was given, and a call that
\* has returned holds the payload of a call that ran alone.
AppelsIndependants ==
    \A i \in 1..NbAppels :
        /\ CadreDe(i).pc # "en_cours"
        /\ CadreDe(i).dossier = appels.dossiers[i]
        /\ CadreDe(i).pc = "done" =>
               Payload(CadreDe(i)) = Seul(appels.dossiers[i],
                                          CadreDe(i).predict_proba)

\* C18: concurrent analyser calls on one engine are independent: no step
\* of a call changes the application a call was given, the engine's model
\* or its feature list, and under every interleaving each call returns the
\* payload it returns when it runs alone on the same application with the
\* same classifier output.
C18_Independance ==
    /\ []AppelsIndependants
    /\ [][/\ model' = model
          /\ features_list' = features_list
          /\ appels'.dossiers = appels.dossiers]_vars

\* Two calls given the same application: call 1 has stopped after its
\* classifier call, call 2 has run meanwhile and returned a refusal, and
\* call 1 has then returned another decision.
C18_Witness ==
    /\ pc = "done"
    /\ appels.courant = 1
    /\ appels.dossiers[1] = appels.dossiers[2]
    /\ decision = "ACCEPTE"
    /\ appels.cadres[2].pc = "done"
    /\ appels.cadres[2].decision = "REFUSE"

\* C21: capacite_emprunt returns 0 whenever the affordable payment
\* revenu_mensuel * MAX_DEBT_RATIO - charges is <= 0, for every rate and
\* term, and a strictly positive amount whenever it is > 0 (rate >= 0,
\* term >= 1).
C21_Plafond ==
    (pc = "calculateur" /\ calc.etape = "retour") =>
        /\ MensualiteMax(calc.revenu, calc.charges) <= 0 =>
               calc.capacite = 0
        /\ MensualiteMax(calc.revenu, calc.charges) > 0 =>
               calc.capacite > 0

\* C22: type_credit returns immobilier exactly when the amount is >=
\* SEUIL_IMMO (75 000) and consommation otherwise; taux_interet returns
\* TAUX_IMMO (0.035) exactly when type_credit returns immobilier and
\* TAUX_CONSO (0.065) otherwise, at the threshold as everywhere else.
C22_MemeSeuil ==
    pc = "calculateur" =>
        /\ calc.type # "None" =>
               /\ calc.type \in {"immobilier", "consommation"}
               /\ calc.type = "immobilier"
                      <=> calc.montant >= 75000 * Cent
        /\ calc.taux # -1 => calc.taux \in {35, 65}
        /\ (calc.type # "None" /\ calc.taux # -1) =>
               /\ calc.taux = 35 <=> calc.type = "immobilier"
               /\ calc.taux = 65 <=> calc.type = "consommation"

\* Both functions have returned for an amount of exactly 75 000: the
\* credit is a real-estate credit at the real-estate rate.
C22_Witness ==
    /\ pc = "calculateur"
    /\ calc.montant = 75000 * Cent
    /\ calc.type = "immobilier"
    /\ calc.taux = 35

\* C23: mensualite is strictly increasing in the principal P for a fixed
\* rate r >= 0 and term n >= 1, and strictly increasing in the rate r for
\* r > 0, fixed P > 0 and n >= 1: both calls of a pair return a payment,
\* and the payment of the greater argument is the greater one.
C23_Monotonie ==
    (pc = "calculateur" /\ calc.etape = "retour") =>
        /\ ~calc.premiere.leve
        /\ ~calc.seconde.leve
        /\ calc.premiere.valeur < calc.seconde.valeur

\* C24: in every payload returned by analyser, refus_auto is true if and
\* only if alertes holds at least one alert of severity danger.
C24_RefusSiDanger ==
    pc = "done" =>
        (refus_auto = TRUE
            <=> \E i \in 1..Len(alertes) : alertes[i][1] = "danger")

\* A payload refused for the age alone: its only danger alert is the one
\* of rule 3.
C24_Witness ==
    /\ pc = "done"
    /\ refus_auto = TRUE
    /\ raison_refus = "Age minimum non atteint"
    /\ \E i \in 1..Len(alertes) : alertes[i] = <<"danger", "Age insuffisant">>
    /\ \A i \in 1..Len(alertes) :
           alertes[i][1] = "danger" => alertes[i][2] = "Age insuffisant"

\* The place of a decision in the order REFUSE < ACCEPTE SOUS CONDITIONS
\* < ACCEPTE.
Ordre(verdict) ==
    CASE verdict = "REFUSE" -> 0
      [] verdict = "ACCEPTE SOUS CONDITIONS" -> 1
      [] verdict = "ACCEPTE" -> 2

\* C25: two analyser runs on the same application that differ only in the
\* default probability used (p1 <= p2, both in [0,1]) return the same
\* score_metier, alertes, points_forts, refus_auto, raison_refus and
\* details, and the decision for p1 is never worse than the decision for
\* p2 in the order REFUSE < ACCEPTE SOUS CONDITIONS < ACCEPTE.
C25_Monotone ==
    \A i, j \in 1..NbAppels :
        LET a == CadreDe(i)
            b == CadreDe(j)
        IN  (/\ a.pc = "done"
             /\ b.pc = "done"
             /\ a.proba_defaut \in 0..100
             /\ b.proba_defaut \in 0..100
             /\ a.proba_defaut <= b.proba_defaut)
            => /\ a.score_metier = b.score_metier
               /\ a.alertes = b.alertes
               /\ a.points_forts = b.points_forts
               /\ a.refus_auto = b.refus_auto
               /\ a.raison_refus = b.raison_refus
               /\ a.details = b.details
               /\ Ordre(a.decision) >= Ordre(b.decision)

\* Two runs on the same application have returned: one used the
\* probability 0.25 and accepts, the other used 0.5 and accepts under
\* conditions.
C25_Witness ==
    /\ CadreDe(1).pc = "done"
    /\ CadreDe(2).pc = "done"
    /\ CadreDe(1).proba_defaut = 25
    /\ CadreDe(2).proba_defaut = 50
    /\ CadreDe(1).decision = "ACCEPTE"
    /\ CadreDe(2).decision = "ACCEPTE SOUS CONDITIONS"

\* The application of a returned payload has income > 0, principal > 0,
\* term >= 1 and charges >= 0.
Recevable ==
    /\ pc = "done"
    /\ Get(dossier, "revenu_annuel", 0) > 0
    /\ Get(dossier, "montant_credit", 0) > 0
    /\ Get(dossier, "duree_annees", 20) >= 1
    /\ Get(dossier, "charges_existantes", 0) >= 0

\* The requested principal exceeds details.capacite_max.
AuDelaCapacite == Get(dossier, "montant_credit", 0) * Cent > details.capacite_max

\* details.taux_endettement exceeds MAX_DEBT_RATIO.
AuDelaRatio == RatioGt(details.taux_endettement, MAX_DEBT_RATIO)

\* The principal equals capacite_max to within the rounding of the payment
\* and of the capacity: one centime a month of the term, and one more.
AuBordCapacite ==
    LET ecart == Get(dossier, "montant_credit", 0) * Cent
                    - details.capacite_max
    IN  /\ ecart <= Get(dossier, "duree_annees", 20) * 12 + 1
        /\ 0 - ecart <= Get(dossier, "duree_annees", 20) * 12 + 1

AucuneReponse == [route |-> "None", status |-> 0]

\* Applications that DossierCredit (api/schemas.py) lets through: the
\* example of the schema and the ends of the validated ranges.
DossiersAPI ==
    {d \in Scenarios : d.revenu_annuel = 50000} \cup Limites

\* The feature lists a model file may hold.
ListesChargees == ListesDonnees \ {Absente}

\* The ways through startup_event: the model file is missing (line 71),
\* it is loaded (line 75), or something raises inside the try (load_model,
\* or the formatting of metadata on line 76 once moteur was assigned) and
\* the except branch runs (line 83).
Chemins == {"absent", "charge", "leve"}

\* startup_event whose except branch assigns nothing.
MoteurApresSansExcept(chemin) ==
    CASE chemin = "absent" ->
             {[moteur |-> "MoteurDecision", model |-> None,
               features_list |-> Absente]}
      [] chemin = "charge" ->
             {[moteur |-> "MoteurDecision", model |-> "classifier",
               features_list |-> f] : f \in ListesChargees}
      [] chemin = "leve" ->
             {[moteur |-> None, model |-> None, features_list |-> Absente]}

\* Lines 64-83: the engine moteur is bound to when startup_event returns.
MoteurApres(chemin) ==
    CASE chemin = "absent" ->
             {[moteur |-> "MoteurDecision", model |-> None,
               features_list |-> Absente]}
      [] chemin = "charge" ->
             {[moteur |-> "MoteurDecision", model |-> "classifier",
               features_list |-> f] : f \in ListesChargees}
      [] chemin = "leve" ->
             {[moteur |-> "MoteurDecision", model |-> None,
               features_list |-> Absente]}

\* Line 43: moteur = None at import, no event has run, no request served.
InitAPI ==
    /\ api = [moteur |-> None, demarre |-> FALSE, chemin |-> "None",
              reponse |-> AucuneReponse]
    /\ appels = None
    /\ HorsService
    /\ pc = "attente"

\* Lines 59-83.
startup_event ==
    /\ pc = "attente"
    /\ ~api.demarre
    /\ \E chemin \in Chemins :
          \E m \in MoteurApres(chemin) :
              /\ api' = [api EXCEPT !.moteur = m.moteur, !.demarre = TRUE,
                                    !.chemin = chemin]
              /\ model' = m.model
              /\ features_list' = m.features_list
    /\ UNCHANGED <<appels, X_pred, calc, dossier, pc, details, score_metier,
                   alertes, points_forts, predict_proba, proba_defaut,
                   score_ml, score_final, refus_auto, raison_refus,
                   decision>>

\* Lines 119-126.
health_check ==
    /\ pc = "attente"
    /\ api' = [api EXCEPT
                  !.reponse = [route |-> "/health", status |-> 200,
                               model_loaded |->
                                   api.moteur # None /\ model # None]]
    /\ UNCHANGED <<appels, features_list, X_pred, calc, model, dossier, pc,
                   details, score_metier, alertes, points_forts,
                   predict_proba, proba_defaut, score_ml, score_final,
                   refus_auto, raison_refus, decision>>

\* Lines 130-144: a validated application arrives.  With no engine the
\* handler raises HTTPException(503); otherwise moteur.analyser is called
\* on the application, in a new frame.
analyser_credit ==
    /\ pc = "attente"
    /\ \E d \in DossiersAPI :
          IF api.moteur = None
          THEN /\ api' = [api EXCEPT
                             !.reponse = [route |-> "/analyser",
                                          status |-> 503]]
               /\ UNCHANGED <<dossier, pc>>
          ELSE /\ api' = [api EXCEPT !.reponse = AucuneReponse]
               /\ dossier' = d
               /\ pc' = "calculs"
    /\ X_pred' = None
    /\ details' = None
    /\ score_metier' = None
    /\ alertes' = None
    /\ points_forts' = None
    /\ predict_proba' = None
    /\ proba_defaut' = None
    /\ score_ml' = None
    /\ score_final' = None
    /\ refus_auto' = None
    /\ raison_refus' = None
    /\ decision' = None
    /\ UNCHANGED <<appels, features_list, calc, model>>

\* Lines 144-151: analyser has returned its payload (200), or has raised
\* and the handler raises HTTPException(500).
RetourAnalyser ==
    /\ pc \in {"done", "raised", "zero_division"}
    /\ api' = [api EXCEPT
                  !.reponse = IF pc = "done"
                              THEN [route |-> "/analyser", status |-> 200,
                                    corps |-> Payload(CadreCourant)]
                              ELSE [route |-> "/analyser", status |-> 500]]
    /\ pc' = "attente"
    /\ UNCHANGED <<appels, features_list, X_pred, calc, model, dossier,
                   details, score_metier, alertes, points_forts,
                   predict_proba, proba_defaut, score_ml, score_final,
                   refus_auto, raison_refus, decision>>

\* On a validated application (duree_annees >= 1, rates 0.035 and 0.065)
\* mensualite does not raise, so CalculsLeve has no step here.
NextAPI ==
    \/ startup_event
    \/ health_check
    \/ analyser_credit
    \/ Calculs
    \/ Regle1
    \/ Regle2
    \/ Regle3
    \/ Regle4
    \/ Regle5
    \/ ScoreML
    \/ ScoreFinal
    \/ Decision
    \/ RetourAnalyser

SpecAPI == InitAPI /\ [][NextAPI]_vars

\* C27: moteur is None only before the startup event has run: once it has
\* run, by any of its paths, moteur is an engine for the rest of the
\* process, and POST /analyser answers 503 only before startup; when the
\* engine was built with model=None, /health reports model_loaded false
\* and every analysis uses proba_defaut 0.5.
C27_Moteur ==
    /\ [](/\ api.moteur = None <=> ~api.demarre
          /\ (api.demarre /\ model = None) =>
                 /\ api.reponse.route = "/health"
                        => ~api.reponse.model_loaded
                 /\ (api.reponse.route = "/analyser"
                         /\ api.reponse.status = 200)
                        => api.reponse.corps.proba_defaut = 50
                 /\ pc \in {"score_final", "decision", "done"}
                        => proba_defaut = 50)
    /\ [][/\ api.demarre => api'.demarre
          /\ (api'.reponse # api.reponse /\ api'.reponse.status = 503)
                 => ~api.demarre]_vars

\* Startup went through its except branch, and an analysis has then been
\* answered with its payload, computed with proba_defaut 0.5.
C27_Witness ==
    /\ api.demarre
    /\ api.chemin = "leve"
    /\ api.moteur = "MoteurDecision"
    /\ model = None
    /\ pc = "attente"
    /\ api.reponse.route = "/analyser"
    /\ api.reponse.status = 200
    /\ api.reponse.corps.proba_defaut = 50

====
